---- MODULE Spec2Model ----
(***************************************************************************)
(* Model of the AMQP 1.0 sender link of Azure/go-amqp: the attach          *)
(* handshake (link.go), Sender.Send / Sender.send, the sender mux and its  *)
(* frame handling (sender.go), the link close path (link.go),              *)
(* and writeFrame (encode.go).                                             *)
(*                                                                         *)
(* The specifications share the variables:                                 *)
(*   Spec        the attached sender: concurrent Send callers, the mux,    *)
(*               the peer's Flow / Disposition / Detach frames, Close;     *)
(*   SpecFrag    one Send at a time over a range of frame sizes, payload   *)
(*               sizes, tags and settle modes (Sender.send as a function   *)
(*               of its inputs);                                           *)
(*   SpecSend    one Send of a message with and without sections;          *)
(*   SpecCredit  one caller and the peer's Flow frames with link-credit    *)
(*               and delivery-count at the edges of uint32;                *)
(*   SpecAttach  link.attach against every peer answer; SpecCancel adds    *)
(*               the fairness of the background muxClose;                  *)
(*   SpecRelease the link from attach to close and its handle;             *)
(*   SpecAck     one caller, the peer's dispositions, Close and the end    *)
(*               of the session;                                           *)
(*   SpecTags    concurrent Sends with and without delivery tags;          *)
(*   SpecTerm    Sends against a link that terminates, with fair callers;  *)
(*   SpecClose   several Close calls on one attached link; SpecCloseFair   *)
(*               adds the fairness of the mux and of the waiting calls;    *)
(*   SpecEnc     writeFrame over frame types, channels and bodies;         *)
(*   SpecComp    marshalComposite over field lists;                        *)
(*   SpecMap     writeMap over maps and iteration orders;                  *)
(*   SpecTxn     Declare over a Send to the coordinator;                   *)
(*   SpecRecv    a receiver's credit, with automatic and manual policy;    *)
(*   SpecPerf    performatives marshalled and unmarshalled again.          *)
(***************************************************************************)
EXTENDS Integers, Sequences, FiniteSets, TLC

\* ------------------------------------------------------------------ bounds

\* number of concurrent Send callers (each makes one Send call)
NumCallers == 2
\* number of events of the environment in one behaviour: frames the peer
\* sends, cancelled contexts, Close, the end of the session (SpecAck, which
\* has few kinds of event, allows one more)
MaxEvents == 2
\* the largest maxCredit of a receiver
MaxCredit == 2
\* number of calls the caller of a receiver makes beside its Receive calls
MaxCalls == 2

Callers == 1..NumCallers

\* ------------------------------------------------------- option values

\* a Go pointer or slice that may be nil: <<>> is nil, <<x>> holds x
None == <<>>
Some(x) == <<x>>
IsNil(o) == Len(o) = 0
Val(o) == o[1]

\* ------------------------------------------------------ uint32 values

\* A uint32 is kept as <<high 16 bits, low 16 bits>>, so that arithmetic
\* wraps at 2^32 exactly as Go's does.
Half == 256 * 256

U32(h, l) == <<h, l>>
U32Zero == U32(0, 0)
U32One == U32(0, 1)
U32Max == U32(Half - 1, Half - 1)
\* a small natural number as a uint32
U32Of(n) == U32(n \div Half, n % Half)

\* a + b on uint32
U32Add(a, b) ==
  LET s == a[2] + b[2]
  IN  U32((a[1] + b[1] + (s \div Half)) % Half, s % Half)

\* a - b on uint32
U32Sub(a, b) ==
  LET d == a[2] - b[2]
      borrow == IF d < 0 THEN 1 ELSE 0
  IN  U32((a[1] - b[1] - borrow + 2 * Half) % Half, (d + Half) % Half)

\* ------------------------------------------------------------- the codec

\* writeDescriptor: 0x00, the smallulong format code 0x53, the type code
writeDescriptor(code) == <<0, 83, code>>

\* the low 32 bits of n, big-endian (buffer.WriteUint32)
WriteUint32(n) ==
  << (n \div 16777216) % 256, (n \div 65536) % 256, (n \div 256) % 256, n % 256 >>

typeCodeVbin8 == 160
typeCodeVbin32 == 176
typeCodeApplicationData == 117

\* writeBinary: vbin8 below 256 bytes, else vbin32
writeBinary(bin) ==
  IF Len(bin) < 256
    THEN <<typeCodeVbin8, Len(bin)>> \o bin
    ELSE <<typeCodeVbin32>> \o WriteUint32(Len(bin)) \o bin

\* binary.BigEndian.PutUint64 of a counter below 2^31
PutUint64(n) == <<0, 0, 0, 0>> \o WriteUint32(n)

\* the payload the tests send: byte i of the body is i mod 256
BodyBytes(n) == [i \in 1..n |-> (i - 1) % 256]

\* Message.Marshal: a message of NewMessage(body) is one application-data
\* section; a message without a bodyLen has no section and encodes to
\* nothing
MessageMarshal(msg) ==
  IF "bodyLen" \in DOMAIN msg
    THEN writeDescriptor(typeCodeApplicationData) \o writeBinary(BodyBytes(msg.bodyLen))
    ELSE <<>>

\* the big-endian bytes of a uint16 (buffer.WriteUint16)
WriteUint16(n) == << (n \div 256) % 256, n % 256 >>

typeCodeNull == 64
typeCodeSmallUlong == 83
typeCodeList0 == 69
typeCodeList32 == 208

\* binary.BigEndian.PutUint32(b[at:], n), at counted from 0
PutUint32(b, at, n) ==
  [i \in 1..Len(b) |-> IF i > at /\ i <= at + 4 THEN WriteUint32(n)[i - at] ELSE b[i]]

\* a last index that counts the omitted fields at the end
LastSetLen(fields) == Len(fields)

\* the index of the last field that is not omitted, counted from 1; 0 if
\* every field is omitted (lastSetIdx + 1 of marshalComposite)
LastSet(fields) ==
  IF \E i \in 1..Len(fields) : ~IsNil(fields[i])
    THEN CHOOSE i \in 1..Len(fields) :
           /\ ~IsNil(fields[i])
           /\ \A j \in (i + 1)..Len(fields) : IsNil(fields[j])
    ELSE 0

RECURSIVE FieldBytes(_, _)
\* the first n fields in order: null for an omitted field, else its encoding
FieldBytes(fields, n) ==
  IF n = 0 THEN <<>>
  ELSE FieldBytes(fields, n - 1)
         \o (IF IsNil(fields[n]) THEN <<typeCodeNull>> ELSE Val(fields[n]))

\* marshalComposite (encode.go:316-373) appended to wr; a field is None when
\* omitted, else Some(the bytes marshal writes for its value)
marshalComposite(wr, code, fields) ==
  IF LastSet(fields) = 0
    THEN wr \o <<0, typeCodeSmallUlong, code, typeCodeList0>>
    ELSE LET sizeIdx == Len(wr) + 4
             all == wr \o writeDescriptor(code) \o <<typeCodeList32>> \o <<0, 0, 0, 0>>
                       \o WriteUint32(LastSet(fields))
                       \o FieldBytes(fields, LastSet(fields))
         IN  PutUint32(all, sizeIdx, Len(all) - (sizeIdx + 4))

\* marshal of a frame body (encode.go:47-50, 218-219): nil is written as the
\* null type code; a performative marshals itself as a composite, a transfer
\* followed by its payload (frames.go:778-799)
marshal(wr, body) ==
  IF IsNil(body)
    THEN wr \o <<typeCodeNull>>
    ELSE marshalComposite(wr, Val(body).code, Val(body).fields) \o Val(body).payload

\* writeFrame (encode.go:15-41): the header with a size of zero, the body,
\* then the length of the buffer written over its first four bytes
writeFrame(buf, fr) ==
  LET b == marshal(buf \o <<0, 0, 0, 0, 2, fr.type_>> \o WriteUint16(fr.channel), fr.body)
  IN  PutUint32(b, 0, Len(b))

typeCodeBoolTrue == 65
typeCodeBoolFalse == 66
typeCodeUint0 == 67
typeCodeSmallUint == 82
typeCodeUint == 112
typeCodeStr8 == 161
typeCodeStr32 == 177
typeCodeMap32 == 209

\* the four big-endian bytes of a uint32 kept as <<high half, low half>>
\* (buffer.WriteUint32)
U32Bytes(n) == WriteUint16(n[1]) \o WriteUint16(n[2])

\* writeUint32 (encode.go:253-269): uint0, smalluint or uint
writeUint32(n) ==
  IF n = U32Zero THEN <<typeCodeUint0>>
  ELSE IF n[1] = 0 /\ n[2] < 256 THEN <<typeCodeSmallUint, n[2]>>
  ELSE <<typeCodeUint>> \o U32Bytes(n)

\* writeString (encode.go:383-409) of a valid UTF-8 string: str8 below 256
\* bytes, else str32
writeString(str) ==
  IF Len(str) < 256
    THEN <<typeCodeStr8, Len(str)>> \o str
    ELSE <<typeCodeStr32>> \o WriteUint32(Len(str)) \o str

\* A value that marshal takes as interface{} is kept as [t |-> its Go type,
\* v |-> its content as numbers]: null <<>>, bool <<0>> or <<1>>, uint32 its
\* two halves, string its bytes.
NullValue == [t |-> "null", v |-> <<>>]
BoolValue(b) == [t |-> "bool", v |-> IF b THEN <<1>> ELSE <<0>>]
Uint32Value(n) == [t |-> "uint32", v |-> n]
StringValue(str) == [t |-> "string", v |-> str]

\* marshal (encode.go:47-56, 69-70, 126-127): the cases nil, bool, uint32
\* and string, as the bytes appended
marshalValue(x) ==
  CASE x.t = "null" -> <<typeCodeNull>>
    [] x.t = "bool" -> <<IF x.v = <<1>> THEN typeCodeBoolTrue ELSE typeCodeBoolFalse>>
    [] x.t = "uint32" -> writeUint32(x.v)
    [] x.t = "string" -> writeString(x.v)

RECURSIVE MapEntries(_, _)
\* the loop `for key, val := range m` of writeMap for a map[string]interface{}
\* (encode.go:458-469): the keys and values in the order the range takes them
MapEntries(m, order) ==
  IF order = <<>> THEN <<>>
  ELSE writeString(Head(order)) \o marshalValue(m[Head(order)])
         \o MapEntries(m, Tail(order))

\* a writeMap that counts the pairs, not the keys and values
writeMapCountPairs(wr, m, order) ==
  LET startIdx == Len(wr)
      pairs == Cardinality(DOMAIN m)
      all == wr \o <<typeCodeMap32, 0, 0, 0, 0, 0, 0, 0, 0>> \o MapEntries(m, order)
      length == Len(all) - startIdx - 1 - 4
  IN  PutUint32(PutUint32(all, startIdx + 1, length), startIdx + 5, pairs)

\* writeMap (encode.go:436-550) of a map[string]interface{}; order is the
\* order in which range takes the keys of m
writeMap(wr, m, order) ==
  LET startIdx == Len(wr)
      pairs == Cardinality(DOMAIN m) * 2
      all == wr \o <<typeCodeMap32, 0, 0, 0, 0, 0, 0, 0, 0>> \o MapEntries(m, order)
      length == Len(all) - startIdx - 1 - 4
  IN  PutUint32(PutUint32(all, startIdx + 1, length), startIdx + 5, pairs)

\* ------------------------------------------------------- the performatives

typeCodeOpen == 16
typeCodeBegin == 17
typeCodeAttach == 18
typeCodeFlow == 19
typeCodeTransfer == 20
typeCodeDisposition == 21
typeCodeDetach == 22
typeCodeEnd == 23
typeCodeClose == 24
typeCodeUshort == 96
typeCodeUlong0 == 68
typeCodeUlong == 128

\* the two roles; a role is written as a boolean, true for the receiver
roleSender == FALSE
roleReceiver == TRUE

\* marshal of a uint16 (encode.go:75-77)
writeUint16(n) == <<typeCodeUshort>> \o WriteUint16(n)

\* writeUint64 (encode.go:271-286) of a number below 2^31: ulong0,
\* smallulong or ulong
writeUint64(n) ==
  IF n = 0 THEN <<typeCodeUlong0>>
  ELSE IF n < 256 THEN <<typeCodeSmallUlong, n>>
  ELSE <<typeCodeUlong, 0, 0, 0, 0>> \o WriteUint32(n)

\* marshal of a role
writeRole(r) == <<IF r THEN typeCodeBoolTrue ELSE typeCodeBoolFalse>>

\* marshal of a bool (encode.go:51-56)
writeBool(b) == <<IF b THEN typeCodeBoolTrue ELSE typeCodeBoolFalse>>

\* a marshalField{value, omit}: nothing when omitted, else the bytes marshal
\* writes for the value
marshalField(value, omit) == IF omit THEN None ELSE Some(value)

\* len(s) == 0 of a slice or map that is nil (None) or holds Val(s)
IsEmpty(s) == IsNil(s) \/ Len(Val(s)) = 0

\* the bytes of a slice that may be nil
BytesOf(s) == IF IsNil(s) THEN <<>> ELSE Val(s)

\* the encoding of a value the model never marshals: the multi-symbol
\* lists, maps, settle modes, termini, states and errors of the
\* performatives are nil or empty here and Open.IdleTimeout is 0, and
\* marshal omits them
Unwritten == <<>>

\* performOpen.marshal (frames.go:58-71)
performOpenMarshal(o) ==
  marshalComposite(<<>>, typeCodeOpen, <<
    marshalField(writeString(o.ContainerID), FALSE),
    marshalField(writeString(o.Hostname), o.Hostname = <<>>),
    marshalField(writeUint32(o.MaxFrameSize), o.MaxFrameSize = U32Max),
    marshalField(writeUint16(o.ChannelMax), o.ChannelMax = 65535),
    marshalField(Unwritten, o.IdleTimeout = 0),
    marshalField(Unwritten, IsEmpty(o.OutgoingLocales)),
    marshalField(Unwritten, IsEmpty(o.IncomingLocales)),
    marshalField(Unwritten, IsEmpty(o.OfferedCapabilities)),
    marshalField(Unwritten, IsEmpty(o.DesiredCapabilities)),
    marshalField(Unwritten, IsEmpty(o.Properties)) >>)

\* marshal of a *uint16 that is not nil (encode.go:78-80)
writeUint16Ptr(p) == writeUint16(IF IsNil(p) THEN 0 ELSE Val(p))

\* performBegin.marshal (frames.go:182-193); an empty Properties map is
\* written as a map of no elements
performBeginMarshal(b) ==
  marshalComposite(<<>>, typeCodeBegin, <<
    marshalField(writeUint16Ptr(b.RemoteChannel), IsNil(b.RemoteChannel)),
    marshalField(writeUint32(b.NextOutgoingID), FALSE),
    marshalField(writeUint32(b.IncomingWindow), FALSE),
    marshalField(writeUint32(b.OutgoingWindow), FALSE),
    marshalField(writeUint32(b.HandleMax), b.HandleMax = U32Max),
    marshalField(Unwritten, IsEmpty(b.OfferedCapabilities)),
    marshalField(Unwritten, IsEmpty(b.DesiredCapabilities)),
    marshalField(writeMap(<<>>, <<>>, <<>>), IsNil(b.Properties)) >>)

\* performAttach.marshal (frames.go:381-398)
performAttachMarshal(a) ==
  marshalComposite(<<>>, typeCodeAttach, <<
    marshalField(writeString(a.Name), FALSE),
    marshalField(writeUint32(a.Handle), FALSE),
    marshalField(writeRole(a.Role), FALSE),
    marshalField(Unwritten, IsNil(a.SenderSettleMode)),
    marshalField(Unwritten, IsNil(a.ReceiverSettleMode)),
    marshalField(Unwritten, IsNil(a.Source)),
    marshalField(Unwritten, IsNil(a.Target)),
    marshalField(Unwritten, IsEmpty(a.Unsettled)),
    marshalField(writeBool(a.IncompleteUnsettled), ~a.IncompleteUnsettled),
    marshalField(writeUint32(a.InitialDeliveryCount), a.Role = roleReceiver),
    marshalField(writeUint64(a.MaxMessageSize), a.MaxMessageSize = 0),
    marshalField(Unwritten, IsEmpty(a.OfferedCapabilities)),
    marshalField(Unwritten, IsEmpty(a.DesiredCapabilities)),
    marshalField(Unwritten, IsEmpty(a.Properties)) >>)

\* marshal of a *uint32 that is not nil (encode.go:73-74)
writeUint32Ptr(p) == writeUint32(IF IsNil(p) THEN U32Zero ELSE Val(p))

\* performFlow.marshal (frames.go:560-574)
performFlowMarshal(f) ==
  marshalComposite(<<>>, typeCodeFlow, <<
    marshalField(writeUint32Ptr(f.NextIncomingID), IsNil(f.NextIncomingID)),
    marshalField(writeUint32(f.IncomingWindow), FALSE),
    marshalField(writeUint32(f.NextOutgoingID), FALSE),
    marshalField(writeUint32(f.OutgoingWindow), FALSE),
    marshalField(writeUint32Ptr(f.Handle), IsNil(f.Handle)),
    marshalField(writeUint32Ptr(f.DeliveryCount), IsNil(f.DeliveryCount)),
    marshalField(writeUint32Ptr(f.LinkCredit), IsNil(f.LinkCredit)),
    marshalField(writeUint32Ptr(f.Available), IsNil(f.Available)),
    marshalField(writeBool(f.Drain), ~f.Drain),
    marshalField(writeBool(f.Echo), ~f.Echo),
    marshalField(Unwritten, IsEmpty(f.Properties)) >>)

\* performTransfer.marshal (frames.go:778-798): the composite, then the
\* payload
performTransferMarshal(t) ==
  marshalComposite(<<>>, typeCodeTransfer, <<
    marshalField(writeUint32(t.Handle), FALSE),
    marshalField(writeUint32Ptr(t.DeliveryID), IsNil(t.DeliveryID)),
    marshalField(writeBinary(BytesOf(t.DeliveryTag)), IsEmpty(t.DeliveryTag)),
    marshalField(writeUint32Ptr(t.MessageFormat), IsNil(t.MessageFormat)),
    marshalField(writeBool(t.Settled), ~t.Settled),
    marshalField(writeBool(t.More), ~t.More),
    marshalField(Unwritten, IsNil(t.ReceiverSettleMode)),
    marshalField(Unwritten, IsNil(t.State)),
    marshalField(writeBool(t.Resume), ~t.Resume),
    marshalField(writeBool(t.Aborted), ~t.Aborted),
    marshalField(writeBool(t.Batchable), ~t.Batchable) >>)
    \o BytesOf(t.Payload)

\* performDisposition.marshal (frames.go:885-894)
performDispositionMarshal(d) ==
  marshalComposite(<<>>, typeCodeDisposition, <<
    marshalField(writeRole(d.Role), FALSE),
    marshalField(writeUint32(d.First), FALSE),
    marshalField(writeUint32Ptr(d.Last), IsNil(d.Last)),
    marshalField(writeBool(d.Settled), ~d.Settled),
    marshalField(Unwritten, IsNil(d.State)),
    marshalField(writeBool(d.Batchable), ~d.Batchable) >>)

\* performDetach.marshal (frames.go:939-945)
performDetachMarshal(d) ==
  marshalComposite(<<>>, typeCodeDetach, <<
    marshalField(writeUint32(d.Handle), FALSE),
    marshalField(writeBool(d.Closed), ~d.Closed),
    marshalField(Unwritten, IsNil(d.Error)) >>)

\* performEnd.marshal (frames.go:971-975)
performEndMarshal(e) ==
  marshalComposite(<<>>, typeCodeEnd, <<marshalField(Unwritten, IsNil(e.Error))>>)

\* performClose.marshal (frames.go:999-1003)
performCloseMarshal(c) ==
  marshalComposite(<<>>, typeCodeClose, <<marshalField(Unwritten, IsNil(c.Error))>>)

\* the number a big-endian run of bytes stands for
RECURSIVE BigEndian(_)
BigEndian(bytes) ==
  IF bytes = <<>> THEN 0
  ELSE 256 * BigEndian(SubSeq(bytes, 1, Len(bytes) - 1)) + bytes[Len(bytes)]

\* the length of the encoded value that starts at b[at], by its format code
ValueLen(b, at) ==
  CASE b[at] \in {typeCodeNull, typeCodeBoolTrue, typeCodeBoolFalse, typeCodeUint0,
                  typeCodeUlong0, typeCodeList0} -> 1
    [] b[at] \in {typeCodeSmallUint, typeCodeSmallUlong} -> 2
    [] b[at] = typeCodeUshort -> 3
    [] b[at] = typeCodeUint -> 5
    [] b[at] = typeCodeUlong -> 9
    [] b[at] \in {typeCodeStr8, typeCodeVbin8} -> 2 + b[at + 1]
    [] b[at] \in {typeCodeStr32, typeCodeVbin32, typeCodeMap32, typeCodeList32} ->
         5 + BigEndian(SubSeq(b, at + 1, at + 4))

RECURSIVE ReadFields(_, _, _)
\* the next n encoded values from b[at] on, one after the other
ReadFields(b, at, n) ==
  IF n = 0 THEN <<>>
  ELSE <<SubSeq(b, at, at + ValueLen(b, at) - 1)>>
         \o ReadFields(b, at + ValueLen(b, at), n - 1)

\* unmarshalComposite for a type of n fields: after the descriptor a list0
\* or a list32 of up to n values; a field that is null or beyond the end of
\* the list is None, any other is Some(its encoding); rest is what follows
\* the list in the buffer
unmarshalComposite(b, code, n) ==
  IF SubSeq(b, 1, 3) # writeDescriptor(code) THEN [err |-> TRUE]
  ELSE IF b[4] = typeCodeList0
    THEN [err |-> FALSE, fields |-> [i \in 1..n |-> None], rest |-> SubSeq(b, 5, Len(b))]
  ELSE IF b[4] # typeCodeList32 THEN [err |-> TRUE]
  ELSE LET size == BigEndian(SubSeq(b, 5, 8))
           count == BigEndian(SubSeq(b, 9, 12))
           got == ReadFields(b, 13, count)
       IN  IF count > n \/ 8 + size > Len(b) THEN [err |-> TRUE]
           ELSE [err |-> FALSE,
                 fields |-> [i \in 1..n |->
                               IF i > count \/ got[i] = <<typeCodeNull>>
                                 THEN None ELSE Some(got[i])],
                 rest |-> SubSeq(b, 9 + size, Len(b))]

\* the uint32 an encoding stands for
readUint32(f) ==
  IF f[1] = typeCodeUint0 THEN U32Zero
  ELSE IF f[1] = typeCodeSmallUint THEN U32(0, f[2])
  ELSE U32(BigEndian(SubSeq(f, 2, 3)), BigEndian(SubSeq(f, 4, 5)))

\* the uint16, uint64 (below 2^31), bool, and string or binary an encoding
\* stands for
readUint16(f) == BigEndian(SubSeq(f, 2, 3))
readUint64(f) ==
  IF f[1] = typeCodeUlong0 THEN 0
  ELSE IF f[1] = typeCodeSmallUlong THEN f[2]
  ELSE BigEndian(SubSeq(f, 6, 9))
readBool(f) == f[1] = typeCodeBoolTrue
readBytes(f) ==
  IF f[1] \in {typeCodeStr8, typeCodeVbin8}
    THEN SubSeq(f, 3, Len(f)) ELSE SubSeq(f, 6, Len(f))

\* what a field of an unmarshalField list becomes: the decoded value, or
\* for a null what handleNull sets or else the zero value of the field
unmarshalField(f, read(_), null) == IF IsNil(f) THEN null ELSE read(Val(f))

\* a pointer field: nil for a null, else a pointer to the decoded value
readPtr(f, read(_)) == IF IsNil(f) THEN None ELSE Some(read(Val(f)))

\* unmarshal has failed: a required field was null or the bytes are no
\* composite of the type
UnmarshalError == [kind |-> "error"]

\* a required field, whose handleNull returns an error, is null
Missing(c, required) == c.err \/ \E i \in required : IsNil(c.fields[i])

\* a performOpen.unmarshal without the default of MaxFrameSize
performOpenUnmarshalNoDefault(b) ==
  LET c == unmarshalComposite(b, typeCodeOpen, 10)
      f == c.fields
  IN  IF Missing(c, {1}) THEN UnmarshalError
      ELSE [kind |-> "Open",
            ContainerID |-> readBytes(Val(f[1])),
            Hostname |-> unmarshalField(f[2], readBytes, <<>>),
            MaxFrameSize |-> unmarshalField(f[3], readUint32, U32Zero),
            ChannelMax |-> unmarshalField(f[4], readUint16, 65535),
            IdleTimeout |-> 0,
            OutgoingLocales |-> None,
            IncomingLocales |-> None,
            OfferedCapabilities |-> None,
            DesiredCapabilities |-> None,
            Properties |-> None]

\* performOpen.unmarshal (frames.go:73-86)
performOpenUnmarshal(b) ==
  LET c == unmarshalComposite(b, typeCodeOpen, 10)
      f == c.fields
  IN  IF Missing(c, {1}) THEN UnmarshalError
      ELSE [kind |-> "Open",
            ContainerID |-> readBytes(Val(f[1])),
            Hostname |-> unmarshalField(f[2], readBytes, <<>>),
            MaxFrameSize |-> unmarshalField(f[3], readUint32, U32Max),
            ChannelMax |-> unmarshalField(f[4], readUint16, 65535),
            IdleTimeout |-> 0,
            OutgoingLocales |-> None,
            IncomingLocales |-> None,
            OfferedCapabilities |-> None,
            DesiredCapabilities |-> None,
            Properties |-> None]

\* performBegin.unmarshal (frames.go:195-208)
performBeginUnmarshal(b) ==
  LET c == unmarshalComposite(b, typeCodeBegin, 8)
      f == c.fields
  IN  IF Missing(c, {2, 3, 4}) THEN UnmarshalError
      ELSE [kind |-> "Begin",
            RemoteChannel |-> readPtr(f[1], readUint16),
            NextOutgoingID |-> readUint32(Val(f[2])),
            IncomingWindow |-> readUint32(Val(f[3])),
            OutgoingWindow |-> readUint32(Val(f[4])),
            HandleMax |-> unmarshalField(f[5], readUint32, U32Max),
            OfferedCapabilities |-> None,
            DesiredCapabilities |-> None,
            Properties |-> readPtr(f[8], LAMBDA x : <<>>)]

\* performAttach.unmarshal (frames.go:400-417)
performAttachUnmarshal(b) ==
  LET c == unmarshalComposite(b, typeCodeAttach, 14)
      f == c.fields
  IN  IF Missing(c, {1, 2, 3}) THEN UnmarshalError
      ELSE [kind |-> "Attach",
            Name |-> readBytes(Val(f[1])),
            Handle |-> readUint32(Val(f[2])),
            Role |-> readBool(Val(f[3])),
            SenderSettleMode |-> None,
            ReceiverSettleMode |-> None,
            Source |-> None,
            Target |-> None,
            Unsettled |-> None,
            IncompleteUnsettled |-> unmarshalField(f[9], readBool, FALSE),
            InitialDeliveryCount |-> unmarshalField(f[10], readUint32, U32Zero),
            MaxMessageSize |-> unmarshalField(f[11], readUint64, 0),
            OfferedCapabilities |-> None,
            DesiredCapabilities |-> None,
            Properties |-> None]

\* performFlow.unmarshal (frames.go:576-590)
performFlowUnmarshal(b) ==
  LET c == unmarshalComposite(b, typeCodeFlow, 11)
      f == c.fields
  IN  IF Missing(c, {2, 3, 4}) THEN UnmarshalError
      ELSE [kind |-> "Flow",
            NextIncomingID |-> readPtr(f[1], readUint32),
            IncomingWindow |-> readUint32(Val(f[2])),
            NextOutgoingID |-> readUint32(Val(f[3])),
            OutgoingWindow |-> readUint32(Val(f[4])),
            Handle |-> readPtr(f[5], readUint32),
            DeliveryCount |-> readPtr(f[6], readUint32),
            LinkCredit |-> readPtr(f[7], readUint32),
            Available |-> readPtr(f[8], readUint32),
            Drain |-> unmarshalField(f[9], readBool, FALSE),
            Echo |-> unmarshalField(f[10], readBool, FALSE),
            Properties |-> None]

\* performTransfer.unmarshal (frames.go:800-822): the payload is a copy of
\* the bytes left, which append([]byte(nil), ...) leaves nil when there are
\* none
performTransferUnmarshal(b) ==
  LET c == unmarshalComposite(b, typeCodeTransfer, 11)
      f == c.fields
  IN  IF Missing(c, {1}) THEN UnmarshalError
      ELSE [kind |-> "Transfer",
            Handle |-> readUint32(Val(f[1])),
            DeliveryID |-> readPtr(f[2], readUint32),
            DeliveryTag |-> readPtr(f[3], readBytes),
            MessageFormat |-> readPtr(f[4], readUint32),
            Settled |-> unmarshalField(f[5], readBool, FALSE),
            More |-> unmarshalField(f[6], readBool, FALSE),
            ReceiverSettleMode |-> None,
            State |-> None,
            Resume |-> unmarshalField(f[9], readBool, FALSE),
            Aborted |-> unmarshalField(f[10], readBool, FALSE),
            Batchable |-> unmarshalField(f[11], readBool, FALSE),
            Payload |-> IF c.rest = <<>> THEN None ELSE Some(c.rest)]

\* performDisposition.unmarshal (frames.go:896-905)
performDispositionUnmarshal(b) ==
  LET c == unmarshalComposite(b, typeCodeDisposition, 6)
      f == c.fields
  IN  IF Missing(c, {1, 2}) THEN UnmarshalError
      ELSE [kind |-> "Disposition",
            Role |-> readBool(Val(f[1])),
            First |-> readUint32(Val(f[2])),
            Last |-> readPtr(f[3], readUint32),
            Settled |-> unmarshalField(f[4], readBool, FALSE),
            State |-> None,
            Batchable |-> unmarshalField(f[6], readBool, FALSE)]

\* performDetach.unmarshal (frames.go:947-953)
performDetachUnmarshal(b) ==
  LET c == unmarshalComposite(b, typeCodeDetach, 3)
      f == c.fields
  IN  IF Missing(c, {1}) THEN UnmarshalError
      ELSE [kind |-> "Detach",
            Handle |-> readUint32(Val(f[1])),
            Closed |-> unmarshalField(f[2], readBool, FALSE),
            Error |-> None]

\* performEnd.unmarshal (frames.go:977-981)
performEndUnmarshal(b) ==
  IF unmarshalComposite(b, typeCodeEnd, 1).err THEN UnmarshalError
  ELSE [kind |-> "End", Error |-> None]

\* performClose.unmarshal (frames.go:1005-1009)
performCloseUnmarshal(b) ==
  IF unmarshalComposite(b, typeCodeClose, 1).err THEN UnmarshalError
  ELSE [kind |-> "Close", Error |-> None]

\* marshal of a performative (encode.go:218-219)
marshalPerformative(p) ==
  CASE p.kind = "Open" -> performOpenMarshal(p)
    [] p.kind = "Begin" -> performBeginMarshal(p)
    [] p.kind = "Attach" -> performAttachMarshal(p)
    [] p.kind = "Flow" -> performFlowMarshal(p)
    [] p.kind = "Transfer" -> performTransferMarshal(p)
    [] p.kind = "Disposition" -> performDispositionMarshal(p)
    [] p.kind = "Detach" -> performDetachMarshal(p)
    [] p.kind = "End" -> performEndMarshal(p)
    [] p.kind = "Close" -> performCloseMarshal(p)

\* unmarshal into a new performative of this kind
unmarshalPerformative(kind, b) ==
  CASE kind = "Open" -> performOpenUnmarshal(b)
    [] kind = "Begin" -> performBeginUnmarshal(b)
    [] kind = "Attach" -> performAttachUnmarshal(b)
    [] kind = "Flow" -> performFlowUnmarshal(b)
    [] kind = "Transfer" -> performTransferUnmarshal(b)
    [] kind = "Disposition" -> performDispositionUnmarshal(b)
    [] kind = "Detach" -> performDetachUnmarshal(b)
    [] kind = "End" -> performEndUnmarshal(b)
    [] kind = "Close" -> performCloseUnmarshal(b)

\* ------------------------------------------------------------- the state

VARIABLES
  \* Sender options and link fields (sender.go type Sender, link.go type link)
  closeOnDispositionError, senderSettleMode, receiverSettleMode,
  maxMessageSize, peerMaxFrameSize,
  deliveryCount, availableCredit, detachReceived,
  linkDone, doneErr, closeSig, handleHeld,
  \* Sender.mu (0: free, else the caller holding it) and Sender.nextDeliveryTag
  mu, nextDeliveryTag,
  \* the sender mux: its position, the frame it holds in an inner loop,
  \* the outgoingDisp channel and the outgoingDisps slice
  muxPc, muxTr, muxDr, outgoingDisp, outgoingDisps,
  \* link.rx: frames the session routed to the link
  rx,
  \* the session: frames handed to session.tx and session.txTransfer, its
  \* done signal and error, and its settlement bookkeeping
  sessionTx, sessionTxTransfer, sessionDone, sessionDoneErr,
  settlementByDeliveryID, doneChan,
  \* the Send callers
  call,
  \* the calls of Sender.Close: each one's position, context and result
  closeCall,
  \* the environment: the events it has left, and the frames the mux has
  \* taken from rx so far, in order
  budget, rxLog,
  \* link.attach: its position, its result, its context; the context
  \* muxClose runs under ("background", "attach", "timed", "expired")
  attachPc, attachErr, attachCtxDone, closeCtx,
  \* the encoder: the buffer and value of the last call, and the buffer after
  \* each call made with them
  encIn, encOut,
  \* the receiver: the position of its mux, Receiver.maxCredit,
  \* link.linkCredit, Receiver.manualCreditor, the ids in
  \* Receiver.unsettledMessages, the ids queued on Receiver.messages and those
  \* in the caller's hands, the receiverReady signal, the Flow frames sent so
  \* far, the caller's call, whether a drain Flow of the peer was handled
  \* since the last DrainCredit began, and the deliveries received so far
  recvPc, maxCredit, linkCredit, manualCreditor, unsettledMessages, messages,
  inHand, receiverReady, flowLog, recvCall, drainSeen, deliveries

cfgVars == <<closeOnDispositionError, senderSettleMode, receiverSettleMode,
             maxMessageSize, peerMaxFrameSize>>
linkVars == <<deliveryCount, availableCredit, detachReceived, linkDone, doneErr,
              handleHeld>>
muxVars == <<muxPc, muxTr, muxDr, outgoingDisp, outgoingDisps>>
sessVars == <<sessionTx, sessionTxTransfer, settlementByDeliveryID, doneChan>>
sessEndVars == <<sessionDone, sessionDoneErr>>
callVars == <<call, mu, nextDeliveryTag>>
peerVars == <<budget>>
closeVars == <<closeSig, closeCall>>
attachVars == <<attachPc, attachErr, attachCtxDone, closeCtx>>
encVars == <<encIn, encOut>>
recvVars == <<recvPc, maxCredit, linkCredit, manualCreditor, unsettledMessages,
              messages, inHand, receiverReady, flowLog, recvCall, drainSeen,
              deliveries>>

vars == <<cfgVars, linkVars, closeVars, muxVars, rx, sessVars, sessEndVars,
          callVars, peerVars, rxLog, attachVars, encVars, recvVars>>

\* ------------------------------------------------------------- errors

NoErr == [kind |-> "nil", RemoteErr |-> "", inner |-> ""]
\* &LinkError{RemoteErr: e, inner: i}; LinkError{} has neither
LinkError(remote, inner) == [kind |-> "LinkError", RemoteErr |-> remote, inner |-> inner]
\* the peer's *Error, as carried by a Rejected state or a Detach
PeerError(cond) == [kind |-> "Error", RemoteErr |-> cond, inner |-> ""]
\* fmt.Errorf(...)
Errorf(text) == [kind |-> "errorf", RemoteErr |-> "", inner |-> text]
CtxErr == [kind |-> "ctx", RemoteErr |-> "", inner |-> "context done"]
SessionErr == [kind |-> "session", RemoteErr |-> "", inner |-> "session ended"]

\* ------------------------------------------------------------- frames

\* the sentinel &needsDeliveryID: the session assigns the delivery id
needsDeliveryID == "needsDeliveryID"

PerformTransfer(id, tag, format, more, settled, payload, done) ==
  [type |-> "Transfer", DeliveryID |-> id, DeliveryTag |-> tag,
   MessageFormat |-> format, More |-> more, Settled |-> settled,
   Payload |-> payload, Done |-> done]

\* the link's handle (link.go:33) and the handle the peer gave its end; a
\* frame carries the handle of the end that sends it
handle == "local"
remoteHandle == "remote"

\* a Flow of the peer for the link
PerformFlow(credit, count, echo) ==
  [type |-> "Flow", Handle |-> Some(remoteHandle), LinkCredit |-> credit,
   DeliveryCount |-> count, Echo |-> echo]

\* State: [kind, Error]; kind "nil" is no state
DeliveryState(kind, err) == [kind |-> kind, Error |-> err]
NilState == DeliveryState("nil", "")

PerformDisposition(role, first, last, settled, state) ==
  [type |-> "Disposition", Role |-> role, First |-> first, Last |-> last,
   Settled |-> settled, State |-> state]

\* Error "" is a nil error
PerformDetach(closed, err) == [type |-> "Detach", Closed |-> closed, Error |-> err]

\* ------------------------------------------------------ Sender.send

\* a tag limit one byte too generous
maxDeliveryTagLengthLoose == 32 + 1
maxDeliveryTagLength == 32
\* a header allowance of 60 bytes
maxTransferFrameHeaderShort == 66 - 6
maxTransferFrameHeader == 66

\* buffer.Next(n): the next n bytes, or all that is left when fewer remain
BufNext(buf, n) == SubSeq(buf, 1, IF n < Len(buf) THEN n ELSE Len(buf))
BufRest(buf, n) == SubSeq(buf, (IF n < Len(buf) THEN n ELSE Len(buf)) + 1, Len(buf))

\* chunks of a whole frame, the header not set aside
maxPayloadSizeWholeFrame == peerMaxFrameSize
maxPayloadSize == peerMaxFrameSize - maxTransferFrameHeader

\* a settled flag that ignores the message's SendSettled in mixed mode
senderSettledAnyMixed(msg) ==
  /\ ~IsNil(senderSettleMode)
  /\ Val(senderSettleMode) \in {"settled", "mixed"}

\* sender.go:120
senderSettled(msg) ==
  /\ ~IsNil(senderSettleMode)
  /\ \/ Val(senderSettleMode) = "settled"
     \/ (Val(senderSettleMode) = "mixed" /\ msg.SendSettled)

\* a policy that ignores the receiver-settle-mode
detachOnRejectDispAnyMode == closeOnDispositionError

\* sender.go:453
detachOnRejectDisp ==
  /\ closeOnDispositionError
  /\ (IsNil(receiverSettleMode) \/ Val(receiverSettleMode) = "first")

\* one pass of the loop body before the select (sender.go:140-154): the
\* frame offered next, built from the previous frame fr and the buffer
NextFrame(fr, buf, msg, c) ==
  LET rest == BufRest(buf, maxPayloadSize)
      more == Len(rest) > 0
  IN  [fr EXCEPT !.Payload = BufNext(buf, maxPayloadSize),
                 !.More = more,
                 !.Settled = IF more THEN fr.Settled ELSE senderSettled(msg),
                 !.Done = IF more THEN fr.Done ELSE Some(c)]

\* sender.go:165-167
ClearFirstOnly(fr) ==
  [fr EXCEPT !.DeliveryID = None, !.DeliveryTag = None, !.MessageFormat = None]

\* the zero frames.PerformTransfer
NoFrame == PerformTransfer(None, None, None, FALSE, FALSE, <<>>, None)

IdleCall == [pc |-> "idle", msg |-> [tag |-> <<>>, bodyLen |-> 0, SendSettled |-> FALSE],
             buf |-> <<>>, fr |-> NoFrame, done |-> None, ctxDone |-> FALSE,
             state |-> NilState, result |-> NoErr]

\* Return from Send with error e (nil when NoErr)
Returned(r, e) == [r EXCEPT !.pc = "ret", !.result = e, !.fr = NoFrame, !.buf = <<>>]

\* The program has not crashed (a nil dereference in the mux ends it).
Alive == muxPc # "panic"

\* Sender.Send up to the lock (sender.go:61-102): the check of l.done and
\* the delivery-tag length check of send.
SendStart(c, m) ==
  /\ Alive
  /\ call[c].pc = "idle"
  /\ attachPc = "attached"
  /\ call' = [call EXCEPT ![c] =
       IF linkDone
         THEN Returned(@, doneErr)
       ELSE IF Len(m.tag) > maxDeliveryTagLength
         THEN Returned([@ EXCEPT !.msg = m], Errorf("delivery tag is over the allowed bytes"))
       ELSE [@ EXCEPT !.pc = "lock", !.msg = m]]
  /\ UNCHANGED <<rxLog, cfgVars, linkVars, closeVars, muxVars, rx, sessVars, sessEndVars,
                 mu, nextDeliveryTag, peerVars, attachVars, encVars, recvVars>>

\* a tag that does not follow the counter
deliveryTagOfZero(msg) ==
  IF Len(msg.tag) = 0 THEN PutUint64(0) ELSE msg.tag

\* the delivery tag of a send (sender.go:123-129)
deliveryTagOf(msg) ==
  IF Len(msg.tag) = 0 THEN PutUint64(nextDeliveryTag) ELSE msg.tag

\* the frame built before the loop (sender.go:131-137)
FirstFrame(msg, buf) ==
  PerformTransfer(Some(needsDeliveryID), deliveryTagOf(msg), Some(0),
                  Len(buf) > 0, FALSE, <<>>, None)

\* send from taking the lock to the first select (sender.go:104-156): marshal,
\* the max-message-size check, the tag, the first frame.  With an empty
\* encoding the loop is skipped and send returns fr.Done, which is nil.
SendLock(c) ==
  /\ Alive
  /\ call[c].pc = "lock"
  /\ mu = 0
  /\ LET msg == call[c].msg
         buf == MessageMarshal(msg)
         fr == FirstFrame(msg, buf)
     IN  IF maxMessageSize # 0 /\ Len(buf) > maxMessageSize
           THEN /\ call' = [call EXCEPT ![c] =
                      Returned(@, Errorf("encoded message size exceeds max"))]
                /\ UNCHANGED <<mu, nextDeliveryTag>>
           ELSE /\ nextDeliveryTag' =
                      IF Len(msg.tag) = 0 THEN nextDeliveryTag + 1 ELSE nextDeliveryTag
                /\ IF fr.More
                     THEN /\ call' = [call EXCEPT ![c] =
                                [@ EXCEPT !.pc = "offer",
                                          !.fr = NextFrame(fr, buf, msg, c),
                                          !.buf = BufRest(buf, maxPayloadSize)]]
                          /\ mu' = c
                     ELSE /\ call' = [call EXCEPT ![c] =
                                [@ EXCEPT !.pc = "wait", !.done = fr.Done]]
                          /\ mu' = mu
  /\ UNCHANGED <<rxLog, cfgVars, linkVars, closeVars, muxVars, rx, sessVars, sessEndVars,
                 peerVars, attachVars, encVars, recvVars>>

\* the caller's side of `s.transfers <- fr` (sender.go:157-170): the first-only
\* fields are cleared and either the next frame is built or send returns
\* fr.Done and releases the lock.
AfterOffer(r, c) ==
  IF r.fr.More
    THEN [r EXCEPT !.fr = NextFrame(ClearFirstOnly(r.fr), r.buf, r.msg, c),
                   !.buf = BufRest(r.buf, maxPayloadSize)]
    ELSE [r EXCEPT !.pc = "wait", !.done = r.fr.Done, !.fr = NoFrame, !.buf = <<>>]

\* send's select, case <-s.l.done (sender.go:158-159)
SendOfferLinkDone(c) ==
  /\ Alive
  /\ call[c].pc = "offer"
  /\ linkDone
  /\ call' = [call EXCEPT ![c] = Returned(@, doneErr)]
  /\ mu' = 0
  /\ UNCHANGED <<rxLog, cfgVars, linkVars, closeVars, muxVars, rx, sessVars, sessEndVars,
                 nextDeliveryTag, peerVars, attachVars, encVars, recvVars>>

\* send's select, case <-ctx.Done() (sender.go:160-161)
SendOfferCtxDone(c) ==
  /\ Alive
  /\ call[c].pc = "offer"
  /\ call[c].ctxDone
  /\ call' = [call EXCEPT ![c] = Returned(@, CtxErr)]
  /\ mu' = 0
  /\ UNCHANGED <<rxLog, cfgVars, linkVars, closeVars, muxVars, rx, sessVars, sessEndVars,
                 nextDeliveryTag, peerVars, attachVars, encVars, recvVars>>

\* a Send that reports success whatever the state
SendOutcomeAlwaysNil(state) == NoErr

\* what Send returns for the state it received on done (sender.go:77-85)
SendOutcome(state) ==
  IF state.kind = "rejected"
    THEN IF detachOnRejectDisp THEN LinkError(state.Error, "") ELSE PeerError(state.Error)
    ELSE NoErr

\* Send's select, case state := <-done (sender.go:77-85).  A closed channel
\* yields the nil state; a nil channel never delivers.
SendWaitState(c) ==
  /\ Alive
  /\ call[c].pc = "wait"
  /\ ~IsNil(call[c].done)
  /\ LET ch == doneChan[Val(call[c].done)]
     IN  /\ Len(ch.q) > 0 \/ ch.closed
         /\ LET state == IF Len(ch.q) > 0 THEN Head(ch.q) ELSE NilState
            IN  call' = [call EXCEPT ![c] =
                           Returned([@ EXCEPT !.state = state], SendOutcome(state))]
         /\ doneChan' = [doneChan EXCEPT ![Val(call[c].done)].q =
                           IF Len(ch.q) > 0 THEN Tail(ch.q) ELSE ch.q]
  /\ UNCHANGED <<rxLog, cfgVars, linkVars, closeVars, muxVars, rx, sessionTx, sessionTxTransfer,
                 settlementByDeliveryID, sessEndVars, mu, nextDeliveryTag, peerVars,
                 attachVars, encVars, recvVars>>

\* Send's select, case <-s.l.done (sender.go:86-87)
SendWaitLinkDone(c) ==
  /\ Alive
  /\ call[c].pc = "wait"
  /\ linkDone
  /\ call' = [call EXCEPT ![c] = Returned(@, doneErr)]
  /\ UNCHANGED <<rxLog, cfgVars, linkVars, closeVars, muxVars, rx, sessVars, sessEndVars,
                 mu, nextDeliveryTag, peerVars, attachVars, encVars, recvVars>>

\* Send's select, case <-ctx.Done() (sender.go:88-89)
SendWaitCtxDone(c) ==
  /\ Alive
  /\ call[c].pc = "wait"
  /\ call[c].ctxDone
  /\ call' = [call EXCEPT ![c] = Returned(@, CtxErr)]
  /\ UNCHANGED <<rxLog, cfgVars, linkVars, closeVars, muxVars, rx, sessVars, sessEndVars,
                 mu, nextDeliveryTag, peerVars, attachVars, encVars, recvVars>>

\* the caller's context is cancelled or times out while Send runs (Send
\* looks at the context in its two selects only)
CtxCancel(c) ==
  /\ Alive
  /\ call[c].pc \in {"offer", "wait"}
  /\ ~call[c].ctxDone
  /\ call' = [call EXCEPT ![c].ctxDone = TRUE]
  /\ budget > 0
  /\ budget' = budget - 1
  /\ UNCHANGED <<rxLog, cfgVars, linkVars, closeVars, muxVars, rx, sessVars, sessEndVars,
                 mu, nextDeliveryTag, attachVars, encVars, recvVars>>

\* ------------------------------------------------------------ the session

\* The session's side of `session.txTransfer <- &tr`: a transfer carrying the
\* sentinel gets the next delivery id; the last transfer's Done is closed at
\* once when the transfer is settled, and otherwise recorded for the
\* delivery's disposition.
SessionSettlement(tr) ==
  LET ids == IF IsNil(tr.DeliveryID) THEN settlementByDeliveryID
             ELSE Append(settlementByDeliveryID, None)
  IN  IF ~IsNil(tr.Done) /\ ~tr.Settled /\ Len(ids) > 0
        THEN [ids EXCEPT ![Len(ids)] = tr.Done]
        ELSE ids

SessionDoneChan(tr) ==
  IF ~IsNil(tr.Done) /\ tr.Settled
    THEN [doneChan EXCEPT ![Val(tr.Done)].closed = TRUE]
    ELSE doneChan

\* the delivery ids a disposition covers: first..last, or first alone
DispositionRange(d) == d.First .. (IF IsNil(d.Last) THEN d.First ELSE Val(d.Last))

\* The session's handling of a peer Disposition: each covered delivery that
\* awaits settlement gets the disposition's state on its Done channel
\* (buffered, capacity 1), which is then closed.
SessionDeliver(d) ==
  [c \in Callers |->
     IF \E id \in DispositionRange(d) :
          /\ id + 1 \in DOMAIN settlementByDeliveryID
          /\ settlementByDeliveryID[id + 1] = Some(c)
       THEN [q |-> IF Len(doneChan[c].q) = 0 THEN <<d.State>> ELSE doneChan[c].q,
             closed |-> TRUE]
       ELSE doneChan[c]]

SessionForget(d) ==
  [i \in DOMAIN settlementByDeliveryID |->
     IF (i - 1) \in DispositionRange(d) THEN None ELSE settlementByDeliveryID[i]]

\* ------------------------------------------------- Sender.muxHandleFrame

\* the credit a Flow leaves (sender.go:396-404)
\* a recomputation that leaves out the peer's delivery-count
FlowCreditNoPeerCount(fr) == U32Sub(Val(fr.LinkCredit), deliveryCount)
FlowCredit(fr) ==
  LET credit == U32Sub(Val(fr.LinkCredit), deliveryCount)
  IN  IF ~IsNil(fr.DeliveryCount)
        THEN U32Add(credit, Val(fr.DeliveryCount))
        ELSE credit

\* an answer that hands the peer's Flow back with the new credit
FlowEchoReturned(fr) == [fr EXCEPT !.LinkCredit = Some(FlowCredit(fr))]

\* the Flow sent in answer to an echo request (sender.go:417-421)
FlowEcho(fr) ==
  [type |-> "Flow", Handle |-> Some(handle), LinkCredit |-> Some(FlowCredit(fr)),
   DeliveryCount |-> Some(deliveryCount), Echo |-> FALSE]

\* the acknowledgement of an unsettled disposition (sender.go:439-444)
DispositionAck(fr) == PerformDisposition("sender", fr.First, fr.Last, TRUE, NilState)

\* a link that ignores a Detach that does not close
LinkHandleErrIgnoreNonClosing(fr) ==
  IF fr.type = "Detach" /\ fr.Closed
    THEN IF fr.Error # "" THEN LinkError(fr.Error, "") ELSE LinkError("", "")
    ELSE NoErr

\* a link error that leaves out what the peer reported
LinkHandleErrNoRemote(fr) ==
  IF fr.type = "Detach" THEN LinkError("", "") ELSE NoErr

\* link.muxHandleFrame (link.go:245-268): the error a frame ends the link with
LinkHandleErr(fr) ==
  IF fr.type = "Detach"
    THEN IF ~fr.Closed THEN LinkError("", "non-closing detach not supported")
         ELSE IF fr.Error # "" THEN LinkError(fr.Error, "")
         ELSE LinkError("", "")
    ELSE NoErr

\* Sender.muxHandleFrame (sender.go:391-451) as a record of its effects:
\* the error, the disposition to send, the credit, a Flow to echo, whether
\* detachReceived is set, and whether the nil LinkCredit is dereferenced.
muxHandleFrame(fr) ==
  IF fr.type = "Flow" THEN
    IF IsNil(fr.LinkCredit)
      THEN [err |-> NoErr, disp |-> None, credit |-> availableCredit, echo |-> None,
            detach |-> detachReceived, panic |-> TRUE]
      ELSE [err |-> NoErr, disp |-> None, credit |-> FlowCredit(fr),
            echo |-> IF fr.Echo THEN Some(FlowEcho(fr)) ELSE None,
            detach |-> detachReceived, panic |-> FALSE]
  ELSE IF fr.type = "Disposition" THEN
    IF fr.State.kind = "rejected" /\ detachOnRejectDisp
      THEN [err |-> LinkError(fr.State.Error, ""), disp |-> None,
            credit |-> availableCredit, echo |-> None, detach |-> detachReceived,
            panic |-> FALSE]
    ELSE IF fr.Settled
      THEN [err |-> NoErr, disp |-> None, credit |-> availableCredit, echo |-> None,
            detach |-> detachReceived, panic |-> FALSE]
    ELSE [err |-> NoErr, disp |-> Some(DispositionAck(fr)), credit |-> availableCredit,
          echo |-> None, detach |-> detachReceived, panic |-> FALSE]
  ELSE [err |-> LinkHandleErr(fr), disp |-> None, credit |-> availableCredit,
        echo |-> None,
        detach |-> (detachReceived \/ (fr.type = "Detach" /\ fr.Closed)),
        panic |-> FALSE]

\* the top of the mux loop (sender.go:310-314): the next queued disposition
\* moves into the outgoingDisp channel when that is empty
LoopTopDisp(ch, q) == IF Len(q) > 0 /\ Len(ch) = 0 THEN <<q[1]>> ELSE ch
LoopTopDisps(ch, q) == IF Len(q) > 0 /\ Len(ch) = 0 THEN Tail(q) ELSE q

\* handleFrame (sender.go:316-325) applied to the head of rx.  top says
\* whether the loop then returns to its top (the outer select) or stays in an
\* inner loop; stay is the position kept when no error ends the mux.
HandleFrame(stay, top) ==
  LET fr == Head(rx)
      res == muxHandleFrame(fr)
      q == IF IsNil(res.disp) THEN outgoingDisps ELSE Append(outgoingDisps, Val(res.disp))
  IN  /\ rx' = Tail(rx)
      /\ rxLog' = Append(rxLog, fr)
      /\ availableCredit' = res.credit
      /\ detachReceived' = res.detach
      /\ sessionTx' = IF ~IsNil(res.echo) /\ ~sessionDone
                        THEN Append(sessionTx, Val(res.echo)) ELSE sessionTx
      /\ IF res.panic
           THEN /\ muxPc' = "panic"
                /\ UNCHANGED <<doneErr, outgoingDisp, outgoingDisps, muxTr, muxDr>>
         ELSE IF res.err # NoErr
           THEN /\ doneErr' = res.err
                /\ muxPc' = "closeTx"
                /\ muxTr' = None
                /\ muxDr' = None
                /\ UNCHANGED <<outgoingDisp, outgoingDisps>>
         ELSE /\ doneErr' = res.err
              /\ muxPc' = stay
              /\ outgoingDisp' = IF top THEN LoopTopDisp(outgoingDisp, q) ELSE outgoingDisp
              /\ outgoingDisps' = IF top THEN LoopTopDisps(outgoingDisp, q) ELSE q
              /\ UNCHANGED <<muxTr, muxDr>>
      /\ UNCHANGED <<cfgVars, deliveryCount, linkDone, handleHeld, closeVars,
                     sessionTxTransfer, settlementByDeliveryID, doneChan, sessEndVars,
                     callVars, peerVars, attachVars, encVars, recvVars>>

\* ------------------------------------------------------------ Sender.mux

\* the guard of the transfer case: outgoingTransfers is s.transfers only
\* while there is credit, and nil otherwise (sender.go:302-308)
\* a mux that offers the transfer case whatever the credit
TransfersEnabledAlways == TRUE
TransfersEnabled == availableCredit # U32Zero

\* select: case dr := <-outgoingDisp (sender.go:328)
MuxSelectDisp ==
  /\ muxPc = "select"
  /\ Len(outgoingDisp) > 0
  /\ muxDr' = Some(Head(outgoingDisp))
  /\ outgoingDisp' = Tail(outgoingDisp)
  /\ muxPc' = "txDisp"
  /\ UNCHANGED <<rxLog, cfgVars, linkVars, closeVars, muxTr, outgoingDisps, rx, sessVars,
                 sessEndVars, callVars, peerVars, attachVars, encVars, recvVars>>

\* select: case fr := <-s.l.rx (sender.go:347-350)
MuxSelectRx ==
  /\ muxPc = "select"
  /\ Len(rx) > 0
  /\ HandleFrame("select", TRUE)

\* select: case tr := <-outgoingTransfers (sender.go:353), together with the
\* caller's `s.transfers <- fr` (sender.go:157): the channel is unbuffered
MuxSelectTransfer(c) ==
  /\ muxPc = "select"
  /\ TransfersEnabled
  /\ call[c].pc = "offer"
  /\ muxTr' = Some(call[c].fr)
  /\ muxPc' = "txTransfer"
  /\ call' = [call EXCEPT ![c] = AfterOffer(@, c)]
  /\ mu' = IF call[c].fr.More THEN mu ELSE 0
  /\ UNCHANGED <<rxLog, cfgVars, linkVars, closeVars, muxDr, outgoingDisp, outgoingDisps, rx,
                 sessVars, sessEndVars, nextDeliveryTag, peerVars, attachVars, encVars, recvVars>>

\* a mux that closes done when it sees the close signal, ahead of muxClose
MuxSelectCloseClosesDone ==
  /\ muxPc = "select"
  /\ closeSig
  /\ doneErr' = LinkError("", "")
  /\ linkDone' = TRUE
  /\ muxPc' = "closeTx"
  /\ UNCHANGED <<rxLog, cfgVars, deliveryCount, availableCredit, detachReceived,
                 handleHeld, closeVars, muxTr, muxDr, outgoingDisp, outgoingDisps, rx,
                 sessVars, sessEndVars, callVars, peerVars, attachVars, encVars, recvVars>>

\* select: case <-s.l.close (sender.go:378-380); the deferred muxClose follows
MuxSelectClose ==
  /\ muxPc = "select"
  /\ closeSig
  /\ doneErr' = LinkError("", "")
  /\ muxPc' = "closeTx"
  /\ UNCHANGED <<rxLog, cfgVars, deliveryCount, availableCredit, detachReceived, linkDone,
                 handleHeld, closeVars, muxTr, muxDr, outgoingDisp, outgoingDisps, rx,
                 sessVars, sessEndVars, callVars, peerVars, attachVars, encVars, recvVars>>

\* select: case <-s.l.session.done (sender.go:381-384)
MuxSelectSessionDone ==
  /\ muxPc = "select"
  /\ sessionDone
  /\ doneErr' = sessionDoneErr
  /\ muxPc' = "closeTx"
  /\ UNCHANGED <<rxLog, cfgVars, deliveryCount, availableCredit, detachReceived, linkDone,
                 handleHeld, closeVars, muxTr, muxDr, outgoingDisp, outgoingDisps, rx,
                 sessVars, sessEndVars, callVars, peerVars, attachVars, encVars, recvVars>>

\* `continue Loop`: back to the outer select through the top of the loop
ContinueLoop ==
  /\ muxPc' = "select"
  /\ muxTr' = None
  /\ muxDr' = None
  /\ outgoingDisp' = LoopTopDisp(outgoingDisp, outgoingDisps)
  /\ outgoingDisps' = LoopTopDisps(outgoingDisp, outgoingDisps)

\* inner loop of the disposition case: s.l.session.tx <- dr (sender.go:332-334)
MuxDispSend ==
  /\ muxPc = "txDisp"
  /\ ~sessionDone
  /\ sessionTx' = Append(sessionTx, Val(muxDr))
  /\ ContinueLoop
  /\ UNCHANGED <<rxLog, cfgVars, linkVars, closeVars, rx, sessionTxTransfer,
                 settlementByDeliveryID, doneChan, sessEndVars, callVars, peerVars,
                 attachVars, encVars, recvVars>>

\* inner loop of the disposition case: fr := <-s.l.rx (sender.go:335-338)
MuxDispRx ==
  /\ muxPc = "txDisp"
  /\ Len(rx) > 0
  /\ HandleFrame("txDisp", FALSE)

\* inner loop of the disposition case: <-s.l.close (sender.go:339-340)
MuxDispClose ==
  /\ muxPc = "txDisp"
  /\ closeSig
  /\ ContinueLoop
  /\ UNCHANGED <<rxLog, cfgVars, linkVars, closeVars, rx, sessVars, sessEndVars, callVars,
                 peerVars, attachVars, encVars, recvVars>>

\* inner loop of the disposition case: <-s.l.session.done (sender.go:341-342)
MuxDispSessionDone ==
  /\ muxPc = "txDisp"
  /\ sessionDone
  /\ ContinueLoop
  /\ UNCHANGED <<rxLog, cfgVars, linkVars, closeVars, rx, sessVars, sessEndVars, callVars,
                 peerVars, attachVars, encVars, recvVars>>

\* the credit accounting after a transfer is handed over (sender.go:360-365)
\* a delivery-count that advances on every transfer frame
CountAfterEveryFrame(tr) == U32Add(deliveryCount, U32One)

CountAfter(tr) == IF tr.More THEN deliveryCount ELSE U32Add(deliveryCount, U32One)
CreditAfter(tr) == IF tr.More THEN availableCredit ELSE U32Sub(availableCredit, U32One)

\* inner loop of the transfer case: s.l.session.txTransfer <- &tr
\* (sender.go:357-366)
MuxTransferSend ==
  /\ muxPc = "txTransfer"
  /\ ~sessionDone
  /\ LET tr == Val(muxTr)
     IN  /\ sessionTxTransfer' = Append(sessionTxTransfer, tr)
         /\ settlementByDeliveryID' = SessionSettlement(tr)
         /\ doneChan' = SessionDoneChan(tr)
         /\ deliveryCount' = CountAfter(tr)
         /\ availableCredit' = CreditAfter(tr)
  /\ ContinueLoop
  /\ UNCHANGED <<rxLog, cfgVars, detachReceived, linkDone, doneErr, handleHeld, closeVars, rx,
                 sessionTx, sessEndVars, callVars, peerVars, attachVars, encVars, recvVars>>

\* inner loop of the transfer case: fr := <-s.l.rx (sender.go:367-370)
MuxTransferRx ==
  /\ muxPc = "txTransfer"
  /\ Len(rx) > 0
  /\ HandleFrame("txTransfer", FALSE)

\* inner loop of the transfer case: <-s.l.close (sender.go:371-372)
MuxTransferClose ==
  /\ muxPc = "txTransfer"
  /\ closeSig
  /\ ContinueLoop
  /\ UNCHANGED <<rxLog, cfgVars, linkVars, closeVars, rx, sessVars, sessEndVars, callVars,
                 peerVars, attachVars, encVars, recvVars>>

\* inner loop of the transfer case: <-s.l.session.done (sender.go:373-374)
MuxTransferSessionDone ==
  /\ muxPc = "txTransfer"
  /\ sessionDone
  /\ ContinueLoop
  /\ UNCHANGED <<rxLog, cfgVars, linkVars, closeVars, rx, sessVars, sessEndVars, callVars,
                 peerVars, attachVars, encVars, recvVars>>

\* ------------------------------------------------------------ link.muxClose

\* muxClose's context is done (link.go:301, 332-333, 351-353)
CloseCtxDone == closeCtx = "expired" \/ (closeCtx = "attach" /\ attachCtxDone)

\* the end of muxClose, its deferred function (link.go:294-312): the handle
\* is returned unless the context is done by then, and done is closed
MuxCloseFinish ==
  /\ handleHeld' = (handleHeld /\ CloseCtxDone)
  /\ linkDone' = TRUE
  /\ muxPc' = "exited"

\* a muxClose that waits for an acknowledgement whoever began the close
MuxCloseTxAlwaysWait ==
  /\ muxPc = "closeTx"
  /\ ~sessionDone
  /\ sessionTx' = Append(sessionTx, PerformDetach(TRUE, ""))
  /\ muxPc' = "closeWait"
  /\ UNCHANGED <<rxLog, cfgVars, linkVars, closeVars, muxTr, muxDr, outgoingDisp,
                 outgoingDisps, rx, sessionTxTransfer, settlementByDeliveryID, doneChan,
                 sessEndVars, callVars, peerVars, attachVars, encVars, recvVars>>

\* muxClose: l.session.tx <- Detach{closed} (link.go:325-346)
MuxCloseTx ==
  /\ muxPc = "closeTx"
  /\ ~sessionDone
  /\ sessionTx' = Append(sessionTx, PerformDetach(TRUE, ""))
  /\ IF detachReceived
       THEN MuxCloseFinish
       ELSE /\ muxPc' = "closeWait"
            /\ UNCHANGED <<handleHeld, linkDone>>
  /\ UNCHANGED <<rxLog, cfgVars, deliveryCount, availableCredit, detachReceived, doneErr,
                 closeVars, muxTr, muxDr, outgoingDisp, outgoingDisps, rx,
                 sessionTxTransfer, settlementByDeliveryID, doneChan, sessEndVars,
                 callVars, peerVars, attachVars, encVars, recvVars>>

\* a muxClose that looks at the session only until its Detach is sent
MuxCloseSessionDoneBeforeTx ==
  /\ muxPc = "closeTx"
  /\ sessionDone
  /\ doneErr' = IF doneErr = NoErr THEN sessionDoneErr ELSE doneErr
  /\ MuxCloseFinish
  /\ UNCHANGED <<rxLog, cfgVars, deliveryCount, availableCredit, detachReceived, closeVars,
                 muxTr, muxDr, outgoingDisp, outgoingDisps, rx, sessVars, sessEndVars,
                 callVars, peerVars, attachVars, encVars, recvVars>>

\* muxClose: <-l.session.done (link.go:336-340), and waitForFrame's
\* <-l.session.done while the acknowledgement is awaited (link.go:350-358)
MuxCloseSessionDone ==
  /\ muxPc \in {"closeTx", "closeWait"}
  /\ sessionDone
  /\ doneErr' = IF doneErr = NoErr THEN sessionDoneErr ELSE doneErr
  /\ MuxCloseFinish
  /\ UNCHANGED <<rxLog, cfgVars, deliveryCount, availableCredit, detachReceived, closeVars,
                 muxTr, muxDr, outgoingDisp, outgoingDisps, rx, sessVars, sessEndVars,
                 callVars, peerVars, attachVars, encVars, recvVars>>

\* a muxClose whose wait ends with any Detach
MuxCloseWaitFrameAnyDetach ==
  /\ muxPc = "closeWait"
  /\ Len(rx) > 0
  /\ rx' = Tail(rx)
  /\ IF Head(rx).type = "Detach"
       THEN MuxCloseFinish
       ELSE UNCHANGED <<handleHeld, linkDone, muxPc>>
  /\ UNCHANGED <<rxLog, cfgVars, deliveryCount, availableCredit, detachReceived, doneErr,
                 closeVars, muxTr, muxDr, outgoingDisp, outgoingDisps, sessVars,
                 sessEndVars, callVars, peerVars, attachVars, encVars, recvVars>>

\* muxClose: a frame arrives while the acknowledgement is awaited
\* (link.go:349-371); only a closing Detach ends the wait
MuxCloseWaitFrame ==
  /\ muxPc = "closeWait"
  /\ Len(rx) > 0
  /\ rx' = Tail(rx)
  /\ IF Head(rx).type = "Detach" /\ Head(rx).Closed
       THEN MuxCloseFinish
       ELSE UNCHANGED <<handleHeld, linkDone, muxPc>>
  /\ UNCHANGED <<rxLog, cfgVars, deliveryCount, availableCredit, detachReceived, doneErr,
                 closeVars, muxTr, muxDr, outgoingDisp, outgoingDisps, sessVars,
                 sessEndVars, callVars, peerVars, attachVars, encVars, recvVars>>

\* muxClose: <-ctx.Done() (link.go:332-333, 351-353): the handle is kept
\* (link.go:301-304) and done is closed
MuxCloseCtxDone ==
  /\ muxPc \in {"closeTx", "closeWait"}
  /\ CloseCtxDone
  /\ linkDone' = TRUE
  /\ muxPc' = "exited"
  /\ UNCHANGED <<rxLog, cfgVars, deliveryCount, availableCredit, detachReceived, doneErr,
                 handleHeld, closeVars, muxTr, muxDr, outgoingDisp, outgoingDisps, rx,
                 sessVars, sessEndVars, callVars, peerVars, attachVars, encVars, recvVars>>

\* the 5-second deadline of a background muxClose passes
CloseCtxExpire ==
  /\ closeCtx = "timed"
  /\ muxPc \in {"closeTx", "closeWait"}
  /\ closeCtx' = "expired"
  /\ UNCHANGED <<rxLog, cfgVars, linkVars, closeVars, muxVars, rx, sessVars, sessEndVars,
                 callVars, peerVars, attachPc, attachErr, attachCtxDone, encVars, recvVars>>

\* ------------------------------------------------------------ link.attach

PerformAttach(role, ssm, rsm, mms, source, target) ==
  [type |-> "Attach", Role |-> role, SenderSettleMode |-> ssm,
   ReceiverSettleMode |-> rsm, MaxMessageSize |-> mms, Source |-> source,
   Target |-> target]

\* the effective mode of an optional settle mode: absent is the default
senderSettleModeValue(m) == IF IsNil(m) THEN "mixed" ELSE Val(m)
receiverSettleModeValue(m) == IF IsNil(m) THEN "first" ELSE Val(m)

\* link.go:203-205
NegotiatedMaxMessageSize(local, resp) ==
  IF local = 0 \/ resp < local THEN resp ELSE local

\* a comparison of the receiver-settle-mode alone
SettleModeMismatchReceiverOnly(resp) ==
  /\ ~IsNil(receiverSettleMode)
  /\ receiverSettleModeValue(receiverSettleMode)
       # receiverSettleModeValue(resp.ReceiverSettleMode)

\* setSettleModes (link.go:222-242): does the peer's answer contradict a
\* mode that was requested
SettleModeMismatch(resp) ==
  \/ /\ ~IsNil(receiverSettleMode)
     /\ receiverSettleModeValue(receiverSettleMode)
          # receiverSettleModeValue(resp.ReceiverSettleMode)
  \/ /\ ~IsNil(senderSettleMode)
     /\ senderSettleModeValue(senderSettleMode)
          # senderSettleModeValue(resp.SenderSettleMode)

\* attach up to its first wait (link.go:119-141): a handle is allocated and
\* the Attach is handed to the session
AttachBegin ==
  /\ attachPc = "new"
  /\ ~sessionDone
  /\ handleHeld' = TRUE
  /\ sessionTx' = Append(sessionTx,
       PerformAttach("sender", senderSettleMode, receiverSettleMode, maxMessageSize,
                     TRUE, TRUE))
  /\ attachPc' = "waitAttach"
  /\ UNCHANGED <<rxLog, cfgVars, deliveryCount, availableCredit, detachReceived, linkDone,
                 doneErr, closeVars, muxVars, rx, sessionTxTransfer,
                 settlementByDeliveryID, doneChan, sessEndVars, callVars, peerVars,
                 attachErr, attachCtxDone, closeCtx, encVars, recvVars>>

\* attach: the answer to the Attach arrives (link.go:141-216).  An answer
\* that is no Attach fails the attach; an Attach without source and target
\* announces a Detach; otherwise max-message-size and the settle modes are
\* settled and, for a sender, the mux is started (sender.go:285-287).
AttachRecv ==
  /\ attachPc = "waitAttach"
  /\ Len(rx) > 0
  /\ rx' = Tail(rx)
  /\ LET resp == Head(rx)
     IN  IF resp.type # "Attach"
           THEN /\ attachPc' = "failed"
                /\ attachErr' = Errorf("unexpected attach response")
                /\ UNCHANGED <<cfgVars, muxPc, closeCtx>>
         ELSE IF ~resp.Source /\ ~resp.Target
           THEN /\ attachPc' = "waitDetach"
                /\ UNCHANGED <<cfgVars, muxPc, attachErr, closeCtx>>
         ELSE /\ maxMessageSize' = NegotiatedMaxMessageSize(maxMessageSize, resp.MaxMessageSize)
              /\ UNCHANGED <<closeOnDispositionError, peerMaxFrameSize>>
              /\ IF SettleModeMismatch(resp)
                   THEN /\ receiverSettleMode' =
                             IF ~IsNil(receiverSettleMode)
                                /\ receiverSettleModeValue(receiverSettleMode)
                                     # receiverSettleModeValue(resp.ReceiverSettleMode)
                               THEN receiverSettleMode
                               ELSE Some(receiverSettleModeValue(resp.ReceiverSettleMode))
                        /\ UNCHANGED senderSettleMode
                        /\ attachPc' = "failed"
                        /\ attachErr' = Errorf("settlement mode requested differs from server")
                        /\ muxPc' = "closeTx"
                        /\ closeCtx' = "attach"
                   ELSE /\ receiverSettleMode' = Some(receiverSettleModeValue(resp.ReceiverSettleMode))
                        /\ senderSettleMode' = Some(senderSettleModeValue(resp.SenderSettleMode))
                        /\ attachPc' = "attached"
                        /\ muxPc' = "select"
                        /\ closeCtx' = "background"
                        /\ UNCHANGED attachErr
  /\ UNCHANGED <<rxLog, linkVars, closeVars, muxTr, muxDr, outgoingDisp, outgoingDisps,
                 sessVars, sessEndVars, callVars, peerVars, attachCtxDone, encVars, recvVars>>

\* an attach that returns the peer's error without the Detach in reply
AttachRecvDetachNoReply ==
  /\ attachPc = "waitDetach"
  /\ Len(rx) > 0
  /\ rx' = Tail(rx)
  /\ attachPc' = "failed"
  /\ attachErr' = IF Head(rx).type # "Detach"
                    THEN Errorf("unexpected frame while waiting for detach")
                  ELSE IF Head(rx).Error = ""
                    THEN Errorf("received detach with no error specified")
                  ELSE PeerError(Head(rx).Error)
  /\ UNCHANGED <<rxLog, cfgVars, linkVars, closeVars, muxVars, sessVars, sessEndVars,
                 callVars, peerVars, attachCtxDone, closeCtx, encVars, recvVars>>

\* attach: the Detach that follows a refusing Attach arrives
\* (link.go:172-200); a closing Detach is sent in reply
AttachRecvDetach ==
  /\ attachPc = "waitDetach"
  /\ Len(rx) > 0
  /\ rx' = Tail(rx)
  /\ attachPc' = "failed"
  /\ LET fr == Head(rx)
     IN  IF fr.type # "Detach"
           THEN /\ attachErr' = Errorf("unexpected frame while waiting for detach")
                /\ UNCHANGED sessionTx
           ELSE /\ sessionTx' = IF sessionDone THEN sessionTx
                                ELSE Append(sessionTx, PerformDetach(TRUE, ""))
                /\ attachErr' = IF fr.Error = ""
                                  THEN Errorf("received detach with no error specified")
                                  ELSE PeerError(fr.Error)
  /\ UNCHANGED <<rxLog, cfgVars, linkVars, closeVars, muxVars, sessionTxTransfer,
                 settlementByDeliveryID, doneChan, sessEndVars, callVars, peerVars,
                 attachCtxDone, closeCtx, encVars, recvVars>>

\* an attach that returns the context's error and starts no cleanup
AttachCtxDoneNoCleanup ==
  /\ attachPc \in {"waitAttach", "waitDetach"}
  /\ attachCtxDone
  /\ attachPc' = "failed"
  /\ attachErr' = CtxErr
  /\ UNCHANGED <<rxLog, cfgVars, linkVars, closeVars, muxVars, rx, sessVars, sessEndVars,
                 callVars, peerVars, attachCtxDone, closeCtx, encVars, recvVars>>

\* attach: waitForFrame returns the context's error (link.go:142-150,
\* 173-180); muxClose is started in the background under a 5-second deadline
AttachCtxDone ==
  /\ attachPc \in {"waitAttach", "waitDetach"}
  /\ attachCtxDone
  /\ attachPc' = "failed"
  /\ attachErr' = CtxErr
  /\ muxPc' = "closeTx"
  /\ closeCtx' = "timed"
  /\ UNCHANGED <<rxLog, cfgVars, linkVars, closeVars, muxTr, muxDr, outgoingDisp, outgoingDisps,
                 rx, sessVars, sessEndVars, callVars, peerVars, attachCtxDone, encVars, recvVars>>

\* attach: waitForFrame returns the session's error (link.go:104-106, 151-153,
\* 181-183)
AttachSessionDone ==
  /\ attachPc \in {"waitAttach", "waitDetach"}
  /\ sessionDone
  /\ attachPc' = "failed"
  /\ attachErr' = sessionDoneErr
  /\ UNCHANGED <<rxLog, cfgVars, linkVars, closeVars, muxVars, rx, sessVars, sessEndVars,
                 callVars, peerVars, attachCtxDone, closeCtx, encVars, recvVars>>

\* the context given to attach is cancelled or times out
AttachCtxCancel ==
  /\ \/ attachPc \in {"waitAttach", "waitDetach"}
     \/ (closeCtx = "attach" /\ muxPc \in {"closeTx", "closeWait"})
  /\ ~attachCtxDone
  /\ attachCtxDone' = TRUE
  /\ budget > 0
  /\ budget' = budget - 1
  /\ UNCHANGED <<rxLog, cfgVars, linkVars, closeVars, muxVars, rx, sessVars, sessEndVars,
                 callVars, attachPc, attachErr, closeCtx, encVars, recvVars>>

\* ------------------------------------------------------- the environment

\* capacity of link.rx (sender.go:264)
RxCap == 1

\* the session can route a frame to the link: the link holds its handle, has
\* not terminated, and rx has room
CanRoute ==
  /\ Alive
  /\ handleHeld
  /\ ~linkDone
  /\ ~sessionDone
  /\ Len(rx) < RxCap

\* one more event of the environment
Event ==
  /\ budget > 0
  /\ budget' = budget - 1

\* the peer answers the Attach
PeerAttach(resp) ==
  /\ CanRoute
  /\ attachPc = "waitAttach"
  /\ Event
  /\ rx' = Append(rx, resp)
  /\ UNCHANGED <<rxLog, cfgVars, linkVars, closeVars, muxVars, sessVars, sessEndVars, callVars,
                 attachVars, encVars, recvVars>>

\* the peer sends a Flow for the link
PeerFlow(f) ==
  /\ CanRoute
  /\ attachPc = "attached"
  /\ Event
  /\ rx' = Append(rx, f)
  /\ UNCHANGED <<rxLog, cfgVars, linkVars, closeVars, muxVars, sessVars, sessEndVars, callVars,
                 attachVars, encVars, recvVars>>

\* the peer sends a Disposition for deliveries it has been sent; the session
\* completes the sends it settles and routes the frame to the link
PeerDisposition(d) ==
  /\ CanRoute
  /\ attachPc = "attached"
  /\ \A id \in DispositionRange(d) : id + 1 \in DOMAIN settlementByDeliveryID
  /\ Event
  /\ rx' = Append(rx, d)
  /\ doneChan' = SessionDeliver(d)
  /\ settlementByDeliveryID' = SessionForget(d)
  /\ UNCHANGED <<rxLog, cfgVars, linkVars, closeVars, muxVars, sessionTx, sessionTxTransfer,
                 sessEndVars, callVars, attachVars, encVars, recvVars>>

\* the peer sends a Detach for the link
PeerDetach(dt) ==
  /\ CanRoute
  /\ attachPc # "new"
  /\ Event
  /\ rx' = Append(rx, dt)
  /\ UNCHANGED <<rxLog, cfgVars, linkVars, closeVars, muxVars, sessVars, sessEndVars, callVars,
                 attachVars, encVars, recvVars>>

\* the session terminates
SessionEnd ==
  /\ Alive
  /\ ~sessionDone
  /\ sessionDone' = TRUE
  /\ sessionDoneErr' = SessionErr
  /\ Event
  /\ UNCHANGED <<rxLog, cfgVars, linkVars, closeVars, muxVars, rx, sessVars, callVars,
                 attachVars, encVars, recvVars>>

\* ------------------------------------------------------- link.closeLink

\* number of Close calls on one link
NumClosers == 2

Closers == 1..NumClosers

IdleClose == [pc |-> "idle", ctxDone |-> FALSE, result |-> NoErr]

\* a Close that reports the link's error as it is
CloseResultRaw(err) == err

\* what closeLink returns once done is closed (link.go:281-286): nil for a
\* LinkError without an inner error
CloseResult(err) ==
  IF err.kind = "LinkError" /\ err.inner = "" THEN NoErr ELSE err

\* closeLink up to its select (link.go:272): closeOnce closes l.close, once
CloseLinkCall(k) ==
  /\ Alive
  /\ attachPc = "attached"
  /\ closeCall[k].pc = "idle"
  /\ closeCall' = [closeCall EXCEPT ![k].pc = "wait"]
  /\ closeSig' = TRUE
  /\ Event
  /\ UNCHANGED <<rxLog, cfgVars, linkVars, muxVars, rx, sessVars, sessEndVars, callVars,
                 attachVars, encVars, recvVars>>

\* closeLink's select, case <-l.done (link.go:275-286)
CloseLinkDone(k) ==
  /\ closeCall[k].pc = "wait"
  /\ linkDone
  /\ closeCall' = [closeCall EXCEPT ![k].pc = "ret", ![k].result = CloseResult(doneErr)]
  /\ UNCHANGED <<rxLog, cfgVars, linkVars, closeSig, muxVars, rx, sessVars, sessEndVars,
                 callVars, peerVars, attachVars, encVars, recvVars>>

\* closeLink's select, case <-ctx.Done() (link.go:277-278)
CloseLinkCtxDone(k) ==
  /\ closeCall[k].pc = "wait"
  /\ closeCall[k].ctxDone
  /\ closeCall' = [closeCall EXCEPT ![k].pc = "ret", ![k].result = CtxErr]
  /\ UNCHANGED <<rxLog, cfgVars, linkVars, closeSig, muxVars, rx, sessVars, sessEndVars,
                 callVars, peerVars, attachVars, encVars, recvVars>>

\* the context given to Close is cancelled or times out
CloseCallCtxCancel(k) ==
  /\ closeCall[k].pc = "wait"
  /\ ~closeCall[k].ctxDone
  /\ closeCall' = [closeCall EXCEPT ![k].ctxDone = TRUE]
  /\ Event
  /\ UNCHANGED <<rxLog, cfgVars, linkVars, closeSig, muxVars, rx, sessVars, sessEndVars,
                 callVars, attachVars, encVars, recvVars>>

\* Sender.Close, called once: closeLink closes l.close (link.go:272)
CloseLink == CloseLinkCall(1)

\* ------------------------------------------------------------ the receiver

\* the caller of the receiver: no call made yet, MaxCalls calls left
IdleRecv == [op |-> "none", pc |-> "idle", err |-> NoErr, msg |-> 0, left |-> MaxCalls]

ErrIssueCredit ==
  [kind |-> "errors", RemoteErr |-> "",
   inner |-> "issueCredit can only be used with receiver links using manual credit management"]
ErrDrainCredit ==
  [kind |-> "errors", RemoteErr |-> "",
   inner |-> "drain can only be used with receiver links using manual credit management"]
ErrLinkDraining == [kind |-> "errors", RemoteErr |-> "", inner |-> "link is currently draining"]
ErrAlreadyDraining == [kind |-> "errors", RemoteErr |-> "", inner |-> "drain already in process"]

\* what the receiver's actions leave alone: the sender's side of the link
sendSide == <<rxLog, cfgVars, linkVars, closeVars, muxVars, rx, sessVars, sessEndVars,
              callVars, attachVars, encVars>>

\* the amounts IssueCredit is called with
Credits == {0, 1}

\* &manualCreditor{}: no drain asked for, no credit to add, no drain awaited
NewManualCreditor == [pendingDrain |-> FALSE, creditsToAdd |-> 0, drained |-> "nil"]

\* len(unsettledMessages)
countUnsettled == Cardinality(unsettledMessages)

\* manualCreditor.FlowBits: whether the next Flow asks for a drain, and the
\* credit it carries: none with a drain or with nothing to add, else what is
\* to add on top of the current credit; both requests are then spent
FlowBits(mc, currentCredits) ==
  [drain |-> mc.pendingDrain,
   credits |-> IF mc.pendingDrain \/ mc.creditsToAdd = 0
                 THEN 0 ELSE mc.creditsToAdd + currentCredits,
   mc |-> [mc EXCEPT !.pendingDrain = FALSE, !.creditsToAdd = 0]]

\* manualCreditor.EndDrain: the drain awaited, if any, is over
EndDrain(mc) == [mc EXCEPT !.drained = "nil"]

\* muxFlow: a Flow with this credit and drain flag goes out; the link's own
\* credit becomes the credit sent, except with a drain, which leaves it
muxFlow(credit, drain) ==
  /\ flowLog' = Append(flowLog, [LinkCredit |-> credit, Drain |-> drain])
  /\ linkCredit' = IF drain THEN linkCredit ELSE credit

\* an automatic receiver that refills whatever its credit
NeedsCreditAlways == ~(countUnsettled = maxCredit /\ linkCredit = 0)

\* the automatic receiver has room for credit: its unsettled messages and
\* its outstanding credit together are below maxCredit
NeedsCredit == linkCredit + countUnsettled < maxCredit

\* Session.NewReceiver: the options set the credit policy; the mux starts
NewReceiver(manual, credit) ==
  /\ recvPc = "new"
  /\ recvPc' = "top"
  /\ maxCredit' = credit
  /\ manualCreditor' = IF manual THEN Some(NewManualCreditor) ELSE None
  /\ UNCHANGED <<linkCredit, unsettledMessages, messages, inHand, receiverReady,
                 flowLog, recvCall, drainSeen, deliveries, peerVars, sendSide>>

\* the top of the mux loop: with manual credit a Flow goes out when a drain
\* or credit was asked for; otherwise a Flow refills the credit to maxCredit
\* less the unsettled messages when there is room for it
RecvMuxTop ==
  /\ recvPc = "top"
  /\ recvPc' = "select"
  /\ IF ~IsNil(manualCreditor)
       THEN LET fb == FlowBits(Val(manualCreditor), linkCredit)
            IN  /\ manualCreditor' = Some(fb.mc)
                /\ IF fb.drain \/ fb.credits > 0
                     THEN muxFlow(fb.credits, fb.drain)
                     ELSE UNCHANGED <<flowLog, linkCredit>>
       ELSE /\ UNCHANGED manualCreditor
            /\ IF NeedsCredit
                 THEN muxFlow(maxCredit - countUnsettled, FALSE)
                 ELSE UNCHANGED <<flowLog, linkCredit>>
  /\ UNCHANGED <<maxCredit, unsettledMessages, messages, inHand, receiverReady,
                 recvCall, drainSeen, deliveries, peerVars, sendSide>>

\* the mux takes the receiverReady signal
RecvMuxReady ==
  /\ recvPc = "select"
  /\ receiverReady
  /\ receiverReady' = FALSE
  /\ recvPc' = "top"
  /\ UNCHANGED <<maxCredit, linkCredit, manualCreditor, unsettledMessages, messages,
                 inHand, flowLog, recvCall, drainSeen, deliveries, peerVars, sendSide>>

\* the mux takes a Transfer of the peer, which holds credit: the message is
\* queued, one credit is used, and in mode second the message is unsettled
RecvMuxTransfer ==
  /\ recvPc = "select"
  /\ budget > 0
  /\ linkCredit > 0
  /\ budget' = budget - 1
  /\ deliveries' = deliveries + 1
  /\ messages' = Append(messages, deliveries + 1)
  /\ linkCredit' = linkCredit - 1
  /\ unsettledMessages' = IF receiverSettleMode = Some("second")
                            THEN unsettledMessages \cup {deliveries + 1}
                            ELSE unsettledMessages
  /\ recvPc' = "top"
  /\ UNCHANGED <<maxCredit, manualCreditor, inHand, receiverReady, flowLog, recvCall,
                 drainSeen, sendSide>>

\* muxHandleFrame with a Flow of the peer that has drain set: with manual
\* credit the link has no credit left and the drain is over
RecvMuxFlow ==
  /\ recvPc = "select"
  /\ budget > 0
  /\ budget' = budget - 1
  /\ drainSeen' = TRUE
  /\ IF ~IsNil(manualCreditor)
       THEN /\ linkCredit' = 0
            /\ manualCreditor' = Some(EndDrain(Val(manualCreditor)))
       ELSE UNCHANGED <<linkCredit, manualCreditor>>
  /\ recvPc' = "top"
  /\ UNCHANGED <<maxCredit, unsettledMessages, messages, inHand, receiverReady,
                 flowLog, recvCall, deliveries, sendSide>>

\* the mux takes the peer's settled Disposition for the message whose
\* disposition the caller has sent
RecvMuxDisposition ==
  /\ recvPc = "select"
  /\ recvCall.op = "AcceptMessage"
  /\ recvCall.pc = "waiting"
  /\ recvCall' = [recvCall EXCEPT !.pc = "settled"]
  /\ recvPc' = "top"
  /\ UNCHANGED <<maxCredit, linkCredit, manualCreditor, unsettledMessages, messages,
                 inHand, receiverReady, flowLog, drainSeen, deliveries, peerVars,
                 sendSide>>

\* the caller may start a call
MayCall == recvPc # "new" /\ recvCall.pc = "idle" /\ recvCall.left > 0

\* a call that has returned with err
RecvReturned(op, err) ==
  [op |-> op, pc |-> "idle", err |-> err, msg |-> 0, left |-> recvCall.left - 1]

\* a DrainCredit that does not wait for the peer
DrainCreditNoWait ==
  /\ MayCall
  /\ IF IsNil(manualCreditor)
       THEN /\ recvCall' = RecvReturned("DrainCredit", ErrDrainCredit)
            /\ UNCHANGED <<manualCreditor, receiverReady, drainSeen>>
       ELSE IF Val(manualCreditor).drained # "nil"
         THEN /\ recvCall' = RecvReturned("DrainCredit", ErrAlreadyDraining)
              /\ UNCHANGED <<manualCreditor, receiverReady, drainSeen>>
         ELSE /\ manualCreditor' = Some([Val(manualCreditor) EXCEPT
                                           !.pendingDrain = TRUE])
              /\ receiverReady' = TRUE
              /\ drainSeen' = FALSE
              /\ recvCall' = RecvReturned("DrainCredit", NoErr)
  /\ UNCHANGED <<recvPc, maxCredit, linkCredit, unsettledMessages, messages, inHand,
                 flowLog, deliveries, peerVars, sendSide>>

\* Receiver.DrainCredit up to its wait: an error without manual credit or
\* with a drain under way; else the drain is asked for, the mux is woken
DrainCredit ==
  /\ MayCall
  /\ IF IsNil(manualCreditor)
       THEN /\ recvCall' = RecvReturned("DrainCredit", ErrDrainCredit)
            /\ UNCHANGED <<manualCreditor, receiverReady, drainSeen>>
       ELSE IF Val(manualCreditor).drained # "nil"
         THEN /\ recvCall' = RecvReturned("DrainCredit", ErrAlreadyDraining)
              /\ UNCHANGED <<manualCreditor, receiverReady, drainSeen>>
         ELSE /\ manualCreditor' = Some([Val(manualCreditor) EXCEPT
                                           !.pendingDrain = TRUE, !.drained = "open"])
              /\ receiverReady' = TRUE
              /\ drainSeen' = FALSE
              /\ recvCall' = [recvCall EXCEPT !.op = "DrainCredit", !.pc = "waiting",
                                              !.err = NoErr]
  /\ UNCHANGED <<recvPc, maxCredit, linkCredit, unsettledMessages, messages, inHand,
                 flowLog, deliveries, peerVars, sendSide>>

\* DrainCredit returns once the drain is over
DrainCreditDone ==
  /\ recvCall.op = "DrainCredit"
  /\ recvCall.pc = "waiting"
  /\ Val(manualCreditor).drained = "nil"
  /\ recvCall' = RecvReturned("DrainCredit", NoErr)
  /\ UNCHANGED <<recvPc, maxCredit, linkCredit, manualCreditor, unsettledMessages,
                 messages, inHand, receiverReady, flowLog, drainSeen, deliveries,
                 peerVars, sendSide>>

\* an IssueCredit that does not look at the credit policy
IssueCreditAnyPolicy(credit) ==
  /\ MayCall
  /\ receiverReady' = TRUE
  /\ recvCall' = RecvReturned("IssueCredit", NoErr)
  /\ IF IsNil(manualCreditor)
       THEN UNCHANGED manualCreditor
       ELSE manualCreditor' = Some([Val(manualCreditor) EXCEPT
                                      !.creditsToAdd = @ + credit])
  /\ UNCHANGED <<recvPc, maxCredit, linkCredit, unsettledMessages, messages, inHand,
                 flowLog, drainSeen, deliveries, peerVars, sendSide>>

\* Receiver.IssueCredit: an error without manual credit or with a drain
\* under way; else the credit is kept for the next Flow and the mux is woken
IssueCredit(credit) ==
  /\ MayCall
  /\ IF IsNil(manualCreditor)
       THEN /\ recvCall' = RecvReturned("IssueCredit", ErrIssueCredit)
            /\ UNCHANGED <<manualCreditor, receiverReady>>
       ELSE IF Val(manualCreditor).drained # "nil"
         THEN /\ recvCall' = RecvReturned("IssueCredit", ErrLinkDraining)
              /\ UNCHANGED <<manualCreditor, receiverReady>>
         ELSE /\ manualCreditor' = Some([Val(manualCreditor) EXCEPT
                                           !.creditsToAdd = @ + credit])
              /\ receiverReady' = TRUE
              /\ recvCall' = RecvReturned("IssueCredit", NoErr)
  /\ UNCHANGED <<recvPc, maxCredit, linkCredit, unsettledMessages, messages, inHand,
                 flowLog, drainSeen, deliveries, peerVars, sendSide>>

\* Receiver.Receive: the mux is woken; the first queued message, if any, is
\* handed to the caller (msg 0: the context ended with no message); the
\* caller may go on calling it
Receive ==
  /\ recvPc # "new"
  /\ recvCall.pc = "idle"
  /\ receiverReady' = TRUE
  /\ IF messages # <<>>
       THEN /\ messages' = Tail(messages)
            /\ inHand' = inHand \cup {Head(messages)}
            /\ recvCall' = [RecvReturned("Receive", NoErr) EXCEPT
                              !.msg = Head(messages), !.left = recvCall.left]
       ELSE /\ recvCall' = [RecvReturned("Receive", CtxErr) EXCEPT
                              !.left = recvCall.left]
            /\ UNCHANGED <<messages, inHand>>
  /\ UNCHANGED <<recvPc, maxCredit, linkCredit, manualCreditor, unsettledMessages,
                 flowLog, drainSeen, deliveries, peerVars, sendSide>>

\* Receiver.AcceptMessage up to its wait: a message that is not unsettled
\* needs nothing; else the Disposition goes out and the caller waits
AcceptMessage(id) ==
  /\ MayCall
  /\ id \in inHand
  /\ IF id \in unsettledMessages
       THEN /\ recvCall' = [recvCall EXCEPT !.op = "AcceptMessage", !.pc = "waiting",
                                            !.err = NoErr, !.msg = id]
            /\ UNCHANGED inHand
       ELSE /\ recvCall' = [RecvReturned("AcceptMessage", NoErr) EXCEPT !.msg = id]
            /\ inHand' = inHand \ {id}
  /\ UNCHANGED <<recvPc, maxCredit, linkCredit, manualCreditor, unsettledMessages,
                 messages, receiverReady, flowLog, drainSeen, deliveries, peerVars,
                 sendSide>>

\* an AcceptMessage that leaves the message among the unsettled ones
AcceptMessageDoneKeeps ==
  /\ recvCall.op = "AcceptMessage"
  /\ recvCall.pc = "settled"
  /\ inHand' = inHand \ {recvCall.msg}
  /\ recvCall' = [RecvReturned("AcceptMessage", NoErr) EXCEPT !.msg = recvCall.msg]
  /\ UNCHANGED <<recvPc, maxCredit, linkCredit, manualCreditor, messages,
                 unsettledMessages, receiverReady, flowLog, drainSeen, deliveries,
                 peerVars, sendSide>>

\* AcceptMessage returns: the message is settled and no longer unsettled
AcceptMessageDone ==
  /\ recvCall.op = "AcceptMessage"
  /\ recvCall.pc = "settled"
  /\ unsettledMessages' = unsettledMessages \ {recvCall.msg}
  /\ inHand' = inHand \ {recvCall.msg}
  /\ recvCall' = [RecvReturned("AcceptMessage", NoErr) EXCEPT !.msg = recvCall.msg]
  /\ UNCHANGED <<recvPc, maxCredit, linkCredit, manualCreditor, messages,
                 receiverReady, flowLog, drainSeen, deliveries, peerVars, sendSide>>

\* ------------------------------------------------------- initial states

SenderModes == {"unsettled", "settled", "mixed"}
ReceiverModes == {"first", "second"}

\* the fields a link has when it is constructed, whatever its options
InitLink ==
  /\ closeCall = [k \in Closers |-> IdleClose]
  /\ encIn = None
  /\ encOut = None
  /\ recvPc = "new"
  /\ maxCredit = 0
  /\ linkCredit = 0
  /\ manualCreditor = None
  /\ unsettledMessages = {}
  /\ messages = <<>>
  /\ inHand = {}
  /\ receiverReady = FALSE
  /\ flowLog = <<>>
  /\ recvCall = IdleRecv
  /\ drainSeen = FALSE
  /\ deliveries = 0
  /\ detachReceived = FALSE
  /\ linkDone = FALSE
  /\ doneErr = NoErr
  /\ closeSig = FALSE
  /\ mu = 0
  /\ nextDeliveryTag = 0
  /\ muxTr = None
  /\ muxDr = None
  /\ outgoingDisp = <<>>
  /\ outgoingDisps = <<>>
  /\ rx = <<>>
  /\ sessionTx = <<>>
  /\ sessionTxTransfer = <<>>
  /\ sessionDone = FALSE
  /\ sessionDoneErr = NoErr
  /\ settlementByDeliveryID = <<>>
  /\ doneChan = [c \in Callers |-> [q |-> <<>>, closed |-> FALSE]]
  /\ call = [c \in Callers |-> IdleCall]
  /\ rxLog = <<>>
  /\ attachErr = NoErr
  /\ attachCtxDone = FALSE

\* a sender whose attach has succeeded and whose mux runs: both settle modes
\* are set (link.go:230, 239); sessionTx records the frames since then
InitAttached ==
  /\ InitLink
  /\ attachPc = "attached"
  /\ muxPc = "select"
  /\ handleHeld = TRUE
  /\ closeCtx = "background"

\* the messages of Spec: the first caller sends a one-frame message, with or
\* without SendSettled, every other caller a two-frame message
Messages(c) ==
  IF c = 1
    THEN {[tag |-> <<>>, bodyLen |-> 1, SendSettled |-> b] : b \in BOOLEAN}
    ELSE {[tag |-> <<>>, bodyLen |-> 4, SendSettled |-> FALSE]}

\* the peer's Flow frames of Spec: one that withdraws the credit and one that
\* grants credit, asks for an echo and carries no delivery-count
Flows ==
  {PerformFlow(Some(U32Zero), Some(deliveryCount), FALSE),
   PerformFlow(Some(U32Of(2)), None, TRUE)}

States == {DeliveryState("accepted", ""), DeliveryState("rejected", "rejected")}

\* the peer's Disposition frames: for one delivery (no last) or for all the
\* deliveries up to the latest (first 0 and a last)
Dispositions ==
  LET n == Len(settlementByDeliveryID)
  IN  {PerformDisposition("receiver", f, None, s, st) :
         f \in 0..(n - 1), s \in BOOLEAN, st \in States}
      \cup
      {PerformDisposition("receiver", 0, Some(n - 1), s, st) :
         s \in {b \in BOOLEAN : n > 0}, st \in States}

Detaches == {PerformDetach(TRUE, ""), PerformDetach(TRUE, "detached"),
             PerformDetach(FALSE, "")}

Init ==
  /\ InitAttached
  /\ budget = MaxEvents
  /\ deliveryCount = U32Zero
  /\ availableCredit \in {U32Zero, U32Of(2)}
  /\ closeOnDispositionError \in BOOLEAN
  /\ senderSettleMode \in {Some("unsettled"), Some("mixed")}
  /\ receiverSettleMode \in {Some(m) : m \in ReceiverModes}
  /\ maxMessageSize = 0
  /\ peerMaxFrameSize = 72

Next ==
  \/ \E c \in Callers : \E m \in Messages(c) : SendStart(c, m)
  \/ \E c \in Callers : SendLock(c)
  \/ \E c \in Callers : SendOfferLinkDone(c)
  \/ \E c \in Callers : SendOfferCtxDone(c)
  \/ \E c \in Callers : SendWaitState(c)
  \/ \E c \in Callers : SendWaitLinkDone(c)
  \/ \E c \in Callers : SendWaitCtxDone(c)
  \/ \E c \in Callers : CtxCancel(c)
  \/ MuxSelectDisp
  \/ MuxSelectRx
  \/ \E c \in Callers : MuxSelectTransfer(c)
  \/ MuxSelectClose
  \/ MuxSelectSessionDone
  \/ MuxDispSend
  \/ MuxDispRx
  \/ MuxDispClose
  \/ MuxDispSessionDone
  \/ MuxTransferSend
  \/ MuxTransferRx
  \/ MuxTransferClose
  \/ MuxTransferSessionDone
  \/ MuxCloseTx
  \/ MuxCloseSessionDone
  \/ MuxCloseWaitFrame
  \/ \E f \in Flows : PeerFlow(f)
  \/ \E d \in Dispositions : PeerDisposition(d)
  \/ \E dt \in Detaches : PeerDetach(dt)
  \/ SessionEnd
  \/ CloseLink

Spec == Init /\ [][Next]_vars

\* ------------------------------------------- Sender.send over its inputs

\* the one caller of SpecFrag and SpecCredit
Caller1 == CHOOSE c \in Callers : \A d \in Callers : c <= d

FrameSizes == {67, 72, 128, 512}

\* messages of 0, 4, 27 and 512 body bytes, with no tag, a one-byte tag, a
\* tag of 32 bytes and one of 33
FragMessages ==
  {[tag |-> t, bodyLen |-> n, SendSettled |-> b] :
     t \in {<<>>, <<7>>, [i \in 1..32 |-> 0], [i \in 1..33 |-> 0]},
     n \in {0, 4, 27, 512}, b \in BOOLEAN}

InitFrag ==
  /\ InitAttached
  /\ budget = 0
  /\ deliveryCount = U32Zero
  /\ availableCredit = U32Of(100)
  /\ closeOnDispositionError = TRUE
  /\ senderSettleMode \in {Some(m) : m \in SenderModes}
  /\ receiverSettleMode = Some("first")
  /\ maxMessageSize \in {0, 16}
  /\ peerMaxFrameSize \in FrameSizes

NextFrag ==
  \/ \E m \in FragMessages : SendStart(Caller1, m)
  \/ SendLock(Caller1)
  \/ MuxSelectTransfer(Caller1)
  \/ MuxTransferSend
  \/ SendWaitState(Caller1)

SpecFrag == InitFrag /\ [][NextFrag]_vars

\* ------------------------------------- Sender.send and its done channel

\* messages with no section at all (&Message{}): their encoding is empty
EmptyMessages == {[tag |-> t, SendSettled |-> b] : t \in {<<>>, <<7>>}, b \in BOOLEAN}

\* messages with a body of 0 or 4 bytes
BodyMessages ==
  {[tag |-> t, bodyLen |-> n, SendSettled |-> b] :
     t \in {<<>>, <<7>>}, n \in {0, 4}, b \in BOOLEAN}

NextSend ==
  \/ \E m \in EmptyMessages \cup BodyMessages : SendStart(Caller1, m)
  \/ SendLock(Caller1)
  \/ MuxSelectTransfer(Caller1)
  \/ MuxTransferSend
  \/ SendWaitState(Caller1)

SpecSend == InitFrag /\ [][NextSend]_vars

\* --------------------------------------------- credit over its full range

\* uint32 values at and around the points where arithmetic wraps
EdgeValues == {U32Zero, U32One, U32(0, Half - 1), U32(1, 0), U32Max}

\* the peer's Flow frames of SpecCredit, with and without link-credit and
\* delivery-count
EdgeFlows ==
  {PerformFlow(l, dc, e) :
     l \in {None} \cup {Some(v) : v \in EdgeValues},
     dc \in {None} \cup {Some(v) : v \in EdgeValues},
     e \in BOOLEAN}

InitCredit ==
  /\ InitAttached
  /\ budget = MaxEvents
  /\ deliveryCount \in EdgeValues
  /\ availableCredit \in {U32Zero, U32One}
  /\ closeOnDispositionError = TRUE
  /\ senderSettleMode = Some("settled")
  /\ receiverSettleMode = Some("first")
  /\ maxMessageSize = 0
  /\ peerMaxFrameSize = 72

NextCredit ==
  \/ \E m \in Messages(2) : SendStart(Caller1, m)
  \/ SendLock(Caller1)
  \/ MuxSelectTransfer(Caller1)
  \/ MuxTransferSend
  \/ MuxTransferRx
  \/ MuxSelectRx
  \/ SendWaitState(Caller1)
  \/ \E f \in EdgeFlows : PeerFlow(f)

SpecCredit == InitCredit /\ [][NextCredit]_vars

\* ------------------------------------------------ link.attach

OptSenderModes == {None} \cup {Some(m) : m \in SenderModes}
OptReceiverModes == {None} \cup {Some(m) : m \in ReceiverModes}
MessageSizes == {0, 16, 1024}

\* the peer's answers to the Attach: with source and target, with a target
\* only, or with neither (a refusal)
AttachResponses ==
  {PerformAttach("receiver", ssm, rsm, mms, st[1], st[2]) :
     ssm \in OptSenderModes, rsm \in OptReceiverModes, mms \in MessageSizes,
     st \in {<<TRUE, TRUE>>, <<FALSE, TRUE>>, <<FALSE, FALSE>>}}

\* a link that has been constructed with its options and not yet attached
InitAttach ==
  /\ InitLink
  /\ budget = MaxEvents
  /\ attachPc = "new"
  /\ muxPc = "idle"
  /\ handleHeld = FALSE
  /\ closeCtx = "none"
  /\ deliveryCount = U32Zero
  /\ availableCredit = U32Zero
  /\ closeOnDispositionError = TRUE
  /\ senderSettleMode \in OptSenderModes
  /\ receiverSettleMode \in OptReceiverModes
  /\ maxMessageSize \in MessageSizes
  /\ peerMaxFrameSize = 512

NextAttach ==
  \/ AttachBegin
  \/ \E resp \in AttachResponses : PeerAttach(resp)
  \/ \E dt \in Detaches : PeerDetach(dt)
  \/ AttachRecv
  \/ AttachRecvDetach
  \/ AttachCtxCancel
  \/ AttachCtxDone
  \/ AttachSessionDone
  \/ SessionEnd
  \/ MuxCloseTx
  \/ MuxCloseSessionDone
  \/ MuxCloseWaitFrame
  \/ MuxCloseCtxDone
  \/ CloseCtxExpire

SpecAttach == InitAttach /\ [][NextAttach]_vars

\* muxClose runs in its own goroutine and its deadline is a timer of the
\* program: each of its steps is taken if it stays ready
FairMuxClose ==
  /\ WF_vars(MuxCloseTx)
  /\ WF_vars(MuxCloseWaitFrame)
  /\ WF_vars(MuxCloseSessionDone)
  /\ WF_vars(MuxCloseCtxDone)
  /\ WF_vars(CloseCtxExpire)

SpecCancel == InitAttach /\ [][NextAttach]_vars /\ FairMuxClose

\* ------------------------------------------- the handle of a closing link

\* A link from its construction on: the attach and its cleanup under a
\* context, and, once attached, the mux with Close, the peer's Detach
\* frames and the end of the session.
InitRelease ==
  /\ InitLink
  /\ budget = MaxEvents + 1
  /\ attachPc = "new"
  /\ muxPc = "idle"
  /\ handleHeld = FALSE
  /\ closeCtx = "none"
  /\ deliveryCount = U32Zero
  /\ availableCredit = U32Zero
  /\ closeOnDispositionError = TRUE
  /\ senderSettleMode \in OptSenderModes
  /\ receiverSettleMode \in OptReceiverModes
  /\ maxMessageSize = 0
  /\ peerMaxFrameSize = 512

NextRelease ==
  \/ NextAttach
  \/ MuxSelectRx
  \/ MuxSelectClose
  \/ MuxSelectSessionDone
  \/ CloseLink

SpecRelease == InitRelease /\ [][NextRelease]_vars

\* ------------------------------------- the acknowledgement of dispositions

\* One caller, the peer's dispositions, Close and the end of the session.
InitAck ==
  /\ InitAttached
  /\ budget = MaxEvents + 1
  /\ deliveryCount = U32Zero
  /\ availableCredit = U32One
  /\ closeOnDispositionError \in BOOLEAN
  /\ senderSettleMode = Some("unsettled")
  /\ receiverSettleMode \in {Some(m) : m \in ReceiverModes}
  /\ maxMessageSize = 0
  /\ peerMaxFrameSize = 72

NextAck ==
  \/ \E m \in Messages(2) : SendStart(Caller1, m)
  \/ SendLock(Caller1)
  \/ SendWaitState(Caller1)
  \/ SendWaitLinkDone(Caller1)
  \/ SendOfferLinkDone(Caller1)
  \/ MuxSelectTransfer(Caller1)
  \/ MuxTransferSend
  \/ MuxTransferRx
  \/ MuxTransferClose
  \/ MuxTransferSessionDone
  \/ MuxSelectRx
  \/ MuxSelectDisp
  \/ MuxSelectClose
  \/ MuxSelectSessionDone
  \/ MuxDispSend
  \/ MuxDispRx
  \/ MuxDispClose
  \/ MuxDispSessionDone
  \/ MuxCloseTx
  \/ MuxCloseSessionDone
  \/ \E d \in Dispositions : PeerDisposition(d)
  \/ CloseLink
  \/ SessionEnd

SpecAck == InitAck /\ [][NextAck]_vars

\* ------------------------------------------ concurrent sends and their tags

\* the messages of SpecTags: with and without a caller's tag, in one frame
\* or in two
TagMessages ==
  {[tag |-> t, bodyLen |-> n, SendSettled |-> FALSE] : t \in {<<>>, <<7>>}, n \in {1, 4}}

\* Concurrent callers whose contexts may end, on a link with credit that
\* stays attached: every frame the mux takes reaches the session.
InitTags ==
  /\ InitAttached
  /\ budget = MaxEvents
  /\ deliveryCount = U32Zero
  /\ availableCredit = U32Of(4)
  /\ closeOnDispositionError = TRUE
  /\ senderSettleMode = Some("unsettled")
  /\ receiverSettleMode = Some("first")
  /\ maxMessageSize = 0
  /\ peerMaxFrameSize = 72

NextTags ==
  \/ \E c \in Callers : \E m \in TagMessages : SendStart(c, m)
  \/ \E c \in Callers : SendLock(c)
  \/ \E c \in Callers : SendOfferCtxDone(c)
  \/ \E c \in Callers : SendWaitCtxDone(c)
  \/ \E c \in Callers : CtxCancel(c)
  \/ \E c \in Callers : MuxSelectTransfer(c)
  \/ MuxTransferSend

SpecTags == InitTags /\ [][NextTags]_vars

\* ------------------------------------------------ the end of the link

\* Concurrent callers on a link that ends: by Close, by the peer's Detach or
\* by the end of the session.  With no credit the callers wait for credit,
\* with credit they wait for a disposition that does not come.
InitTerm ==
  /\ InitAttached
  /\ budget = MaxEvents
  /\ deliveryCount = U32Zero
  /\ availableCredit \in {U32Zero, U32Of(2)}
  /\ closeOnDispositionError = TRUE
  /\ senderSettleMode = Some("unsettled")
  /\ receiverSettleMode = Some("first")
  /\ maxMessageSize = 0
  /\ peerMaxFrameSize = 72

NextTerm ==
  \/ \E c \in Callers : \E m \in Messages(c) : SendStart(c, m)
  \/ \E c \in Callers : SendLock(c)
  \/ \E c \in Callers : SendOfferLinkDone(c)
  \/ \E c \in Callers : SendWaitLinkDone(c)
  \/ MuxSelectRx
  \/ \E c \in Callers : MuxSelectTransfer(c)
  \/ MuxSelectClose
  \/ MuxSelectSessionDone
  \/ MuxTransferSend
  \/ MuxTransferRx
  \/ MuxTransferClose
  \/ MuxTransferSessionDone
  \/ MuxCloseTx
  \/ MuxCloseSessionDone
  \/ MuxCloseWaitFrame
  \/ \E dt \in Detaches : PeerDetach(dt)
  \/ SessionEnd
  \/ CloseLink

\* a goroutine whose select has a ready case, or that can take the lock,
\* runs: the callers' steps are weakly fair
FairCallers ==
  \A c \in Callers :
    /\ WF_vars(SendOfferLinkDone(c))
    /\ WF_vars(SendWaitLinkDone(c))
    /\ WF_vars(SendLock(c))

SpecTerm == InitTerm /\ [][NextTerm]_vars /\ FairCallers

\* ----------------------------------------------------------- Sender.Close

\* An attached sender with no Send under way and several Close calls, whose
\* contexts may end, the peer's Detach frames and the end of the session.
InitClose ==
  /\ InitAttached
  /\ budget = MaxEvents + NumClosers
  /\ deliveryCount = U32Zero
  /\ availableCredit = U32Zero
  /\ closeOnDispositionError = TRUE
  /\ senderSettleMode = Some("unsettled")
  /\ receiverSettleMode = Some("first")
  /\ maxMessageSize = 0
  /\ peerMaxFrameSize = 72

NextClose ==
  \/ \E k \in Closers : CloseLinkCall(k)
  \/ \E k \in Closers : CloseLinkDone(k)
  \/ \E k \in Closers : CloseLinkCtxDone(k)
  \/ \E k \in Closers : CloseCallCtxCancel(k)
  \/ MuxSelectRx
  \/ MuxSelectClose
  \/ MuxSelectSessionDone
  \/ MuxCloseTx
  \/ MuxCloseSessionDone
  \/ MuxCloseWaitFrame
  \/ \E dt \in Detaches : PeerDetach(dt)
  \/ SessionEnd

SpecClose == InitClose /\ [][NextClose]_vars

\* the mux is a goroutine of its own and a Close call runs in its caller's:
\* a select with a case that stays ready is left through some ready case,
\* so each step of the mux, of muxClose and of a waiting Close is taken if
\* it stays ready
FairClose ==
  /\ WF_vars(MuxSelectRx)
  /\ WF_vars(MuxSelectClose)
  /\ WF_vars(MuxSelectSessionDone)
  /\ WF_vars(MuxCloseTx)
  /\ WF_vars(MuxCloseSessionDone)
  /\ WF_vars(MuxCloseWaitFrame)
  /\ \A k \in Closers : WF_vars(CloseLinkDone(k)) /\ WF_vars(CloseLinkCtxDone(k))

SpecCloseFair == InitClose /\ [][NextClose]_vars /\ FairClose

\* ------------------------------------------------------------- writeFrame

\* frame type AMQP and SASL
FrameTypes == {0, 1}
EncChannels == {0, 1, 255, 256, 65535}

\* performative bodies: End and Close without an error, a closing Detach of
\* handle 0, a Flow with an omitted field between set ones, and Transfers
\* with payloads around the sizes where the frame's length takes a second
\* byte
EncBodies ==
  {None}
    \cup {Some([code |-> c, fields |-> <<None>>, payload |-> <<>>]) : c \in {23, 24}}
    \cup {Some([code |-> 22, fields |-> <<Some(<<67>>), Some(<<65>>), None>>,
                payload |-> <<>>]),
          Some([code |-> 19, fields |-> <<None, Some(<<82, 5>>), None, Some(<<82, 9>>)>>,
                payload |-> <<>>])}
    \cup {Some([code |-> 20, fields |-> <<Some(<<67>>)>>, payload |-> BodyBytes(n)]) :
            n \in {0, 234, 235, 236, 300}}

EncBuffers == {<<>>, <<7>>}

\* one call of writeFrame
WriteFrame(buf, fr) ==
  /\ encIn' = Some([buf |-> buf, fr |-> fr])
  /\ encOut' = Some(writeFrame(buf, fr))
  /\ UNCHANGED <<rxLog, cfgVars, linkVars, closeVars, muxVars, rx, sessVars, sessEndVars,
                 callVars, peerVars, attachVars, recvVars>>

InitEnc ==
  /\ InitLink
  /\ budget = 0
  /\ attachPc = "new"
  /\ muxPc = "idle"
  /\ handleHeld = FALSE
  /\ closeCtx = "none"
  /\ deliveryCount = U32Zero
  /\ availableCredit = U32Zero
  /\ closeOnDispositionError = TRUE
  /\ senderSettleMode = None
  /\ receiverSettleMode = None
  /\ maxMessageSize = 0
  /\ peerMaxFrameSize = 512

\* the frames of SpecEnc: every type, channel and body
EncFrames ==
  {[type_ |-> t, channel |-> ch, body |-> body] :
     t \in FrameTypes, ch \in EncChannels, body \in EncBodies}

NextEnc == \E buf \in EncBuffers, fr \in EncFrames : WriteFrame(buf, fr)

SpecEnc == InitEnc /\ [][NextEnc]_vars

\* ------------------------------------------------------- marshalComposite

\* longest field list of SpecComp
MaxFields == 3

\* a field: omitted, or the encoding of a uint32 0 or 5 or of a string "a"
CompFields == {None, Some(<<typeCodeUint0>>), Some(<<typeCodeSmallUint, 5>>),
               Some(<<typeCodeStr8, 1, 97>>)}

\* every list of up to MaxFields fields
CompFieldLists == UNION {[1..n -> CompFields] : n \in 0..MaxFields}

\* one call of marshalComposite
MarshalComposite(wr, code, fields) ==
  /\ encIn' = Some([buf |-> wr, code |-> code, fields |-> fields])
  /\ encOut' = Some(marshalComposite(wr, code, fields))
  /\ UNCHANGED <<rxLog, cfgVars, linkVars, closeVars, muxVars, rx, sessVars, sessEndVars,
                 callVars, peerVars, attachVars, recvVars>>

NextComp ==
  \E wr \in EncBuffers, code \in {typeCodeOpen, typeCodeFlow}, fields \in CompFieldLists :
    MarshalComposite(wr, code, fields)

SpecComp == InitEnc /\ [][NextComp]_vars

\* ------------------------------------------- TransactionController.Declare

\* *encoding.StateDeclared with its transaction id
StateDeclared(id) == [kind |-> "declared", Error |-> "", TransactionID |-> id]

\* what sendRaw gives back for a Send call that has returned: the state it
\* received on done with no error, or no state and the error of send, of the
\* link or of the context
sendRaw(r) ==
  IF r.state # NilState \/ r.result = NoErr
    THEN [state |-> r.state, err |-> NoErr]
    ELSE [state |-> NilState, err |-> r.result]

\* a Declare that takes an Accepted state for a declaration
DeclareAcceptsAccepted(r) ==
  LET raw == sendRaw(r)
  IN  IF raw.err # NoErr THEN [id |-> None, err |-> raw.err]
      ELSE IF raw.state.kind = "declared"
        THEN [id |-> Some(raw.state.TransactionID), err |-> NoErr]
      ELSE IF raw.state.kind = "accepted" THEN [id |-> Some(""), err |-> NoErr]
      ELSE [id |-> None, err |-> Errorf("invalid response when declaring transaction")]

\* TransactionController.Declare (transaction_controller.go:48-64) after
\* sendRaw has returned
Declare(r) ==
  LET raw == sendRaw(r)
  IN  IF raw.err # NoErr THEN [id |-> None, err |-> raw.err]
      ELSE IF raw.state.kind = "declared"
        THEN [id |-> Some(raw.state.TransactionID), err |-> NoErr]
      ELSE [id |-> None, err |-> Errorf("invalid response when declaring transaction")]

\* the states a coordinator may answer with
TxnStates ==
  {DeliveryState(k, "") : k \in {"accepted", "released", "modified"}}
    \cup {DeliveryState("rejected", "rejected")}
    \cup {StateDeclared(id) : id \in {"txn1", "txn2"}}

\* the coordinator's Disposition frames for the one delivery
TxnDispositions ==
  {PerformDisposition("receiver", 0, None, s, st) : s \in BOOLEAN, st \in TxnStates}

\* the sender of a transaction controller, attached
InitTxn ==
  /\ InitAttached
  /\ budget = MaxEvents
  /\ deliveryCount = U32Zero
  /\ availableCredit = U32One
  /\ closeOnDispositionError \in BOOLEAN
  /\ senderSettleMode \in {Some("unsettled"), Some("mixed")}
  /\ receiverSettleMode \in {Some(m) : m \in ReceiverModes}
  /\ maxMessageSize = 0
  /\ peerMaxFrameSize = 72

\* one Declare call, the mux, the coordinator's dispositions, the end of the
\* call's context, of the link and of the session (no frame can reach the
\* link while the one transfer is being handed over)
NextTxn ==
  \/ \E m \in Messages(1) : SendStart(Caller1, m)
  \/ SendLock(Caller1)
  \/ SendWaitState(Caller1)
  \/ SendWaitLinkDone(Caller1)
  \/ SendOfferLinkDone(Caller1)
  \/ SendWaitCtxDone(Caller1)
  \/ SendOfferCtxDone(Caller1)
  \/ CtxCancel(Caller1)
  \/ MuxSelectTransfer(Caller1)
  \/ MuxTransferSend
  \/ MuxTransferClose
  \/ MuxTransferSessionDone
  \/ MuxSelectRx
  \/ MuxSelectDisp
  \/ MuxSelectClose
  \/ MuxSelectSessionDone
  \/ MuxDispSend
  \/ MuxDispRx
  \/ MuxDispClose
  \/ MuxDispSessionDone
  \/ MuxCloseTx
  \/ MuxCloseSessionDone
  \/ MuxCloseWaitFrame
  \/ \E d \in TxnDispositions : PeerDisposition(d)
  \/ CloseLink
  \/ SessionEnd

SpecTxn == InitTxn /\ [][NextTxn]_vars

\* ---------------------------------------------------------------- writeMap

\* the orders in which a range over the keys S can take them
Orders(S) ==
  {o \in [1..Cardinality(S) -> S] : \A i, j \in 1..Cardinality(S) : o[i] = o[j] => i = j}

\* keys of one byte, of two bytes and of 256 bytes (a str32)
MapKeys == {<<97>>, <<98, 99>>, [i \in 1..256 |-> 100]}
MapValues == {NullValue, BoolValue(TRUE), Uint32Value(U32Zero), Uint32Value(U32(0, 5)),
              Uint32Value(U32(1, 0))}
\* the maps of up to three entries
Maps == UNION {[K -> MapValues] : K \in SUBSET MapKeys}

\* the first call of writeMap
WriteMap(buf, m, order) ==
  /\ IsNil(encIn)
  /\ encIn' = Some([buf |-> buf, m |-> m])
  /\ encOut' = Some(writeMap(buf, m, order))
  /\ UNCHANGED <<rxLog, cfgVars, linkVars, closeVars, muxVars, rx, sessVars, sessEndVars,
                 callVars, peerVars, attachVars, recvVars>>

\* the same map is marshalled once more into a buffer like the first
WriteMapAgain(order) ==
  /\ ~IsNil(encIn)
  /\ Len(encOut) = 1
  /\ encOut' = Append(encOut, writeMap(Val(encIn).buf, Val(encIn).m, order))
  /\ UNCHANGED <<rxLog, cfgVars, linkVars, closeVars, muxVars, rx, sessVars, sessEndVars,
                 callVars, peerVars, attachVars, encIn, recvVars>>

NextMap ==
  \/ \E buf \in EncBuffers, m \in Maps : \E order \in Orders(DOMAIN m) :
       WriteMap(buf, m, order)
  \/ /\ ~IsNil(encIn)
     /\ \E order \in Orders(DOMAIN Val(encIn).m) : WriteMapAgain(order)

SpecMap == InitEnc /\ [][NextMap]_vars

\* ------------------------------------------------- the receiver's credit

\* a receiver link that is attached, in either settle mode; the sender's
\* side of the model stands still
InitRecv ==
  /\ InitLink
  /\ budget = MaxEvents
  /\ attachPc = "new"
  /\ muxPc = "idle"
  /\ handleHeld = FALSE
  /\ closeCtx = "none"
  /\ deliveryCount = U32Zero
  /\ availableCredit = U32Zero
  /\ closeOnDispositionError = TRUE
  /\ senderSettleMode = None
  /\ receiverSettleMode \in {Some("first"), Some("second")}
  /\ maxMessageSize = 0
  /\ peerMaxFrameSize = 512

NextRecv ==
  \/ \E manual \in BOOLEAN, credit \in 1..MaxCredit : NewReceiver(manual, credit)
  \/ RecvMuxTop
  \/ RecvMuxReady
  \/ RecvMuxTransfer
  \/ RecvMuxFlow
  \/ RecvMuxDisposition
  \/ DrainCredit
  \/ DrainCreditDone
  \/ \E credit \in Credits : IssueCredit(credit)
  \/ Receive
  \/ \E id \in inHand : AcceptMessage(id)
  \/ AcceptMessageDone

\* the mux runs whenever it can, the peer answers a Disposition, calls that
\* can return do, and the caller goes on calling Receive
FairRecv ==
  /\ WF_vars(Receive)
  /\ WF_vars(RecvMuxTop)
  /\ WF_vars(RecvMuxReady)
  /\ WF_vars(RecvMuxDisposition)
  /\ WF_vars(AcceptMessageDone)
  /\ WF_vars(DrainCreditDone)

SpecRecv == InitRecv /\ [][NextRecv]_vars /\ FairRecv

\* ------------------------------------- performatives marshalled and read

\* values of the fields: strings, uint32 numbers around the sizes of their
\* encodings, pointers to them, and slices and maps that are nil or empty
PerfStrings == {<<>>, <<97>>}
PerfU32 == {U32Zero, U32(0, 256)}
PerfDefaultU32 == {U32Zero, U32(0, 255), U32Max}
PerfOptU32 == {None, Some(U32Zero), Some(U32One)}
NilOrEmpty == {None, Some(<<>>)}

PerfOpens ==
  {[kind |-> "Open", ContainerID |-> c, Hostname |-> h, MaxFrameSize |-> m,
    ChannelMax |-> ch, IdleTimeout |-> 0, OutgoingLocales |-> l,
    IncomingLocales |-> None, OfferedCapabilities |-> None,
    DesiredCapabilities |-> None, Properties |-> pr] :
     c \in PerfStrings, h \in PerfStrings, m \in PerfDefaultU32, ch \in {0, 65535},
     l \in NilOrEmpty, pr \in NilOrEmpty}

PerfBegins ==
  {[kind |-> "Begin", RemoteChannel |-> rc, NextOutgoingID |-> n,
    IncomingWindow |-> U32One, OutgoingWindow |-> U32Zero, HandleMax |-> m,
    OfferedCapabilities |-> l, DesiredCapabilities |-> None, Properties |-> pr] :
     rc \in {None, Some(0), Some(1)}, n \in PerfU32, m \in PerfDefaultU32,
     l \in NilOrEmpty, pr \in NilOrEmpty}

PerfAttaches ==
  {[kind |-> "Attach", Name |-> n, Handle |-> h, Role |-> r,
    SenderSettleMode |-> None, ReceiverSettleMode |-> None, Source |-> None,
    Target |-> None, Unsettled |-> u, IncompleteUnsettled |-> i,
    InitialDeliveryCount |-> d, MaxMessageSize |-> m, OfferedCapabilities |-> None,
    DesiredCapabilities |-> None, Properties |-> pr] :
     n \in PerfStrings, h \in PerfU32, r \in {roleSender, roleReceiver},
     u \in NilOrEmpty, i \in BOOLEAN, d \in PerfDefaultU32, m \in {0, 255, 256},
     pr \in NilOrEmpty}

PerfFlows ==
  {[kind |-> "Flow", NextIncomingID |-> ni, IncomingWindow |-> w,
    NextOutgoingID |-> U32One, OutgoingWindow |-> U32Zero, Handle |-> h,
    DeliveryCount |-> dc, LinkCredit |-> lc, Available |-> None, Drain |-> d,
    Echo |-> e, Properties |-> pr] :
     ni \in PerfOptU32, w \in PerfU32, h \in PerfOptU32, dc \in {None, Some(U32Max)},
     lc \in {None, Some(U32Zero)}, d \in BOOLEAN, e \in BOOLEAN, pr \in NilOrEmpty}

PerfTransfers ==
  {[kind |-> "Transfer", Handle |-> h, DeliveryID |-> id, DeliveryTag |-> tag,
    MessageFormat |-> mf, Settled |-> s, More |-> m, ReceiverSettleMode |-> None,
    State |-> None, Resume |-> FALSE, Aborted |-> FALSE, Batchable |-> b,
    Payload |-> pl] :
     h \in PerfU32, id \in {None, Some(U32One)}, tag \in {None, Some(<<>>), Some(<<1>>)},
     mf \in {None, Some(U32Zero)}, s \in BOOLEAN, m \in BOOLEAN, b \in BOOLEAN,
     pl \in {None, Some(<<>>), Some(<<104, 105>>)}}

PerfDispositions ==
  {[kind |-> "Disposition", Role |-> r, First |-> f, Last |-> l, Settled |-> s,
    State |-> None, Batchable |-> b] :
     r \in {roleSender, roleReceiver}, f \in PerfU32, l \in PerfOptU32,
     s \in BOOLEAN, b \in BOOLEAN}

PerfDetaches ==
  {[kind |-> "Detach", Handle |-> h, Closed |-> c, Error |-> None] :
     h \in PerfU32, c \in BOOLEAN}

Performatives ==
  PerfOpens \cup PerfBegins \cup PerfAttaches \cup PerfFlows \cup PerfTransfers \cup PerfDispositions
    \cup PerfDetaches \cup {[kind |-> "End", Error |-> None], [kind |-> "Close", Error |-> None]}

\* a performative is marshalled into an empty buffer
MarshalPerformative(p) ==
  /\ IsNil(encIn)
  /\ encIn' = Some(p)
  /\ encOut' = <<marshalPerformative(p)>>
  /\ UNCHANGED <<rxLog, cfgVars, linkVars, closeVars, muxVars, rx, sessVars, sessEndVars,
                 callVars, peerVars, attachVars, recvVars>>

\* the bytes are unmarshalled into a new performative of the same kind
UnmarshalPerformative ==
  /\ ~IsNil(encIn)
  /\ Len(encOut) = 1
  /\ encOut' = Append(encOut, unmarshalPerformative(Val(encIn).kind, encOut[1]))
  /\ UNCHANGED <<rxLog, cfgVars, linkVars, closeVars, muxVars, rx, sessVars, sessEndVars,
                 callVars, peerVars, attachVars, recvVars, encIn>>

NextPerf ==
  \/ \E p \in Performatives : MarshalPerformative(p)
  \/ UnmarshalPerformative

SpecPerf == InitEnc /\ [][NextPerf]_vars

\* ================================================================ claims

\* send has returned a done channel for caller c: all its frames were taken
Sent(c) == call[c].pc \in {"wait", "ret"} /\ ~IsNil(call[c].done)

\* the frame the mux handles in this step, when it handles one
Handles(type) == rxLog' # rxLog /\ Head(rx).type = type

\* C1 - Credit gating: the mux takes a transfer frame from a Send caller only
\* when its available credit is above zero at the select; a caller that
\* offers a frame while the credit is zero keeps offering it, and leaves
\* only with the link's error once the link has terminated or with the
\* context's error once its context is done.
C1_CreditGating ==
  [][/\ (muxPc = "select" /\ muxPc' = "txTransfer") => availableCredit # U32Zero
     /\ \A c \in Callers :
          (call[c].pc = "offer" /\ availableCredit = U32Zero /\ call'[c] # call[c])
            => \/ call'[c] = [call[c] EXCEPT !.ctxDone = TRUE]
               \/ /\ call'[c].pc = "ret"
                  /\ \/ linkDone /\ call'[c].result = doneErr
                     \/ call[c].ctxDone /\ call'[c].result = CtxErr
                  /\ call'[c].result # NoErr]_vars

\* a caller blocked with a frame at zero credit after an earlier transfer
\* went out, on a link that has not terminated
C1_Witness ==
  /\ \E c \in Callers : call[c].pc = "offer"
  /\ availableCredit = U32Zero
  /\ muxPc = "select"
  /\ Len(sessionTxTransfer) > 0
  /\ ~linkDone

\* C2 - Flow credit recomputation: when the mux handles a Flow with
\* link-credit L and delivery-count D' (0 when absent) while the local
\* delivery-count is D, the available credit becomes (L + D' - D) mod 2^32
\* and the delivery-count does not change.
C2_FlowCredit ==
  [][(Handles("Flow") /\ ~IsNil(Head(rx).LinkCredit))
       => LET f == Head(rx)
              peerCount == IF IsNil(f.DeliveryCount) THEN U32Zero ELSE Val(f.DeliveryCount)
          IN  /\ availableCredit' = U32Sub(U32Add(Val(f.LinkCredit), peerCount), deliveryCount)
              /\ deliveryCount' = deliveryCount]_vars

\* a Flow whose sum wraps: L = 2^32 - 1 and D' = 1 at D = 0 leave no credit
C2_Witness ==
  /\ Len(rxLog) > 0
  /\ rxLog[Len(rxLog)].type = "Flow"
  /\ rxLog[Len(rxLog)].LinkCredit = Some(U32Max)
  /\ rxLog[Len(rxLog)].DeliveryCount = Some(U32One)
  /\ deliveryCount = U32Zero
  /\ availableCredit = U32Zero

\* C3 - Fragmentation: once send has handed over a message whose encoding
\* has n > 0 bytes, the session has been given ceil(n / (peerMaxFrameSize -
\* 66)) transfers whose payloads are the successive slices of the encoding,
\* each at most peerMaxFrameSize - 66 bytes; all but the last have more set;
\* delivery-id, delivery-tag and message-format are on the first only.
C3_Fragmentation ==
  (Sent(Caller1) /\ IsNil(muxTr)) =>
    LET enc == MessageMarshal(call[Caller1].msg)
        n == Len(enc)
        k == peerMaxFrameSize - 66
        log == sessionTxTransfer
    IN  /\ n > 0
        /\ Len(log) = (n + k - 1) \div k
        /\ \A i \in 1..Len(log) :
             /\ log[i].Payload = SubSeq(enc, (i - 1) * k + 1, IF i * k < n THEN i * k ELSE n)
             /\ Len(log[i].Payload) <= k
             /\ log[i].More = (i < Len(log))
             /\ IsNil(log[i].DeliveryID) = (i > 1)
             /\ IsNil(log[i].DeliveryTag) = (i > 1)
             /\ IsNil(log[i].MessageFormat) = (i > 1)

\* a message sent in three or more frames, the last one shorter
C3_Witness ==
  /\ Sent(Caller1)
  /\ IsNil(muxTr)
  /\ Len(sessionTxTransfer) >= 3
  /\ Len(sessionTxTransfer[Len(sessionTxTransfer)].Payload) < peerMaxFrameSize - 66
  /\ Len(sessionTxTransfer[Len(sessionTxTransfer)].Payload) > 0

\* the scenario of C4: a peer max-frame-size of 128 and a body of 512 bytes,
\* handed over in full
MultiTransferSent ==
  /\ peerMaxFrameSize = 128
  /\ call[Caller1].msg.bodyLen = 512
  /\ Sent(Caller1)
  /\ IsNil(muxTr)

\* C4 as stated - with max-frame-size 128 a message of 512 body bytes goes
\* out as exactly 8 transfers, more set on the first seven.
C4_EightTransfers ==
  MultiTransferSent =>
    /\ Len(sessionTxTransfer) = 8
    /\ \A i \in 1..Len(sessionTxTransfer) :
         /\ sessionTxTransfer[i].More = (i <= 7)
         /\ IsNil(sessionTxTransfer[i].DeliveryID) = (i > 1)

\* C4 - Multi-transfer scenario: with max-frame-size 128 a message of 512
\* body bytes (520 bytes encoded, 62 per frame) goes out as exactly 9
\* transfers, delivery-id on the first only, more set on the first eight and
\* clear on the last.
C4_NineTransfers ==
  MultiTransferSent =>
    /\ Len(sessionTxTransfer) = 9
    /\ \A i \in 1..Len(sessionTxTransfer) :
         /\ sessionTxTransfer[i].More = (i <= 8)
         /\ IsNil(sessionTxTransfer[i].DeliveryID) = (i > 1)

C4_Witness == MultiTransferSent /\ Len(sessionTxTransfer) > 0

\* every transfer frame there is: offered by a caller, held by the mux, or
\* handed to the session
TransferFrames ==
  {call[c].fr : c \in {x \in Callers : call[x].pc = "offer"}}
    \cup {muxTr[i] : i \in DOMAIN muxTr}
    \cup {sessionTxTransfer[i] : i \in DOMAIN sessionTxTransfer}

\* C5 - Settled flag: a transfer with more set is never settled; the final
\* transfer of a delivery is settled exactly when the sender-settle-mode is
\* settled, or is mixed and the message has SendSettled set (so never in
\* unsettled mode, nor when no mode is known).
C5_SettledFlag ==
  \A tr \in TransferFrames :
    IF tr.More
      THEN ~tr.Settled
      ELSE LET msg == call[Val(tr.Done)].msg
               mode == IF IsNil(senderSettleMode) THEN "none" ELSE Val(senderSettleMode)
           IN  tr.Settled <=> (mode = "settled" \/ (mode = "mixed" /\ msg.SendSettled))

\* a settled final transfer and earlier unsettled frames in mixed mode
C5_Witness ==
  /\ senderSettleMode = Some("mixed")
  /\ Len(sessionTxTransfer) >= 2
  /\ sessionTxTransfer[Len(sessionTxTransfer)].Settled
  /\ ~sessionTxTransfer[Len(sessionTxTransfer)].More

\* the final transfer of caller c went out unsettled
SentUnsettled(c) ==
  /\ Sent(c)
  /\ \E i \in DOMAIN sessionTxTransfer :
       /\ sessionTxTransfer[i].Done = Some(c)
       /\ ~sessionTxTransfer[i].Settled

\* C6 - Send outcome: a Send of an unsettled delivery that returns nil has
\* received a delivery state from its done channel, and the state is not
\* Rejected; a Send that received Rejected returns an error that carries the
\* peer's error; a Send that received any other state returns nil.
C6_SendOutcome ==
  \A c \in Callers :
    (call[c].pc = "ret" /\ SentUnsettled(c)) =>
      /\ (call[c].result = NoErr) =>
           /\ call[c].state.kind \notin {"nil", "rejected"}
           /\ doneChan[c].closed
      /\ (call[c].state.kind = "rejected") =>
           /\ call[c].result.kind \in {"Error", "LinkError"}
           /\ call[c].result.RemoteErr = call[c].state.Error
      /\ (call[c].state.kind \notin {"nil", "rejected"}) => call[c].result = NoErr

\* one Send has returned the peer's rejection and another Send has returned
\* nil for an accepted delivery
C6_Witness ==
  \E c, d \in Callers :
    /\ call[c].pc = "ret" /\ SentUnsettled(c)
    /\ call[c].state.kind = "rejected" /\ call[c].result.RemoteErr = "rejected"
    /\ call[d].pc = "ret" /\ SentUnsettled(d)
    /\ call[d].state.kind = "accepted" /\ call[d].result = NoErr

\* C7 - Rejection policy: when the mux handles a Disposition whose state is
\* Rejected, it ends the link with a LinkError carrying the remote error if
\* closeOnDispositionError is set (IgnoreDispositionErrors=false) and the
\* receiver-settle-mode is first or absent; otherwise it stays in its loop
\* with no error and the link is not terminated.
C7_RejectionPolicy ==
  [][(Handles("Disposition") /\ Head(rx).State.kind = "rejected")
       => IF /\ closeOnDispositionError
             /\ (IsNil(receiverSettleMode) \/ receiverSettleMode = Some("first"))
            THEN /\ muxPc' = "closeTx"
                 /\ doneErr' = LinkError(Head(rx).State.Error, "")
            ELSE /\ muxPc' = muxPc
                 /\ doneErr' = NoErr
                 /\ ~linkDone']_vars

\* after a rejection that failed one Send with the peer's error, the link
\* is attached and takes the next Send's transfer
C7_Witness ==
  \E c, d \in Callers :
    /\ call[c].pc = "ret"
    /\ call[c].state.kind = "rejected"
    /\ call[c].result = PeerError("rejected")
    /\ call[d].pc = "offer"
    /\ ~linkDone
    /\ ENABLED MuxSelectTransfer(d)

\* the acknowledgements owed for the frames the mux has handled, in the
\* order of their arrival: one for each unsettled Disposition that does not
\* end the link
OwedAcks ==
  LET owed(f) == /\ f.type = "Disposition"
                 /\ ~f.Settled
                 /\ ~(f.State.kind = "rejected" /\ closeOnDispositionError
                      /\ receiverSettleMode = Some("first"))
      ds == SelectSeq(rxLog, owed)
  IN  [i \in 1..Len(ds) |-> PerformDisposition("sender", ds[i].First, ds[i].Last, TRUE, NilState)]

\* the acknowledgements handed to the session so far
SentAcks == SelectSeq(sessionTx, LAMBDA f : f.type = "Disposition")

\* C8 - Receiver-settle-second acknowledgement: the acknowledgements handed
\* to the session are, in order, the acknowledgements owed for the unsettled
\* dispositions handled so far: none is left out, doubled or overtaken.
C8_AcksInOrder ==
  /\ Len(SentAcks) <= Len(OwedAcks)
  /\ SentAcks = SubSeq(OwedAcks, 1, Len(SentAcks))

\* C9 - Pre-wire validation: a Send whose delivery tag is longer than 32
\* bytes, or whose encoding is larger than a non-zero max-message-size,
\* returns an error before it offers any frame, and its return leaves the
\* link, the mux, the credit, the delivery-count and the next delivery tag
\* as they were.
C9_PreWireValidation ==
  [][\A c \in Callers :
       LET msg == call'[c].msg
       IN  (/\ call[c].pc # "ret"
            /\ call'[c].pc = "ret"
            /\ \/ Len(msg.tag) > 32
               \/ maxMessageSize # 0 /\ Len(MessageMarshal(msg)) > maxMessageSize)
         => /\ call[c].pc \in {"idle", "lock"}
            /\ call'[c].result.kind = "errorf"
            /\ IsNil(call'[c].done)
            /\ UNCHANGED <<availableCredit, deliveryCount, nextDeliveryTag, linkDone,
                           muxPc, muxTr, sessionTxTransfer, sessionTx, attachPc>>]_vars

\* an encoding above a max-message-size of 16 was refused with nothing sent
\* and no delivery tag used
C9_Witness ==
  /\ call[Caller1].pc = "ret"
  /\ Len(call[Caller1].msg.tag) <= 32
  /\ maxMessageSize = 16
  /\ Len(MessageMarshal(call[Caller1].msg)) > 16
  /\ call[Caller1].result.kind = "errorf"
  /\ nextDeliveryTag = 0
  /\ sessionTxTransfer = <<>>

\* the smaller of the non-zero values among a and b; 0 when both are 0
MinNonZero(a, b) ==
  IF a = 0 THEN b ELSE IF b = 0 THEN a ELSE IF a < b THEN a ELSE b

\* C10 - max-message-size negotiation: the attach that succeeds leaves the
\* link with the minimum of the non-zero values among its own setting and
\* the peer's Attach value, 0 meaning unlimited.
C10_MaxMessageSize ==
  [][(attachPc = "waitAttach" /\ attachPc' = "attached")
       => maxMessageSize' = MinNonZero(maxMessageSize, Head(rx).MaxMessageSize)]_vars

\* the transfers handed to the mux so far, in order (where the mux drops
\* none: SpecTags), followed by the frame a caller offers
HandedToMux == sessionTxTransfer \o muxTr

Offered ==
  LET cs == {c \in Callers : call[c].pc = "offer"}
  IN  IF cs = {} THEN <<>> ELSE <<call[CHOOSE c \in cs : TRUE].fr>>

\* the number an 8-byte big-endian tag stands for (below 2^31)
TagValue(t) == ((t[5] * 256 + t[6]) * 256 + t[7]) * 256 + t[8]

\* the tags the sender assigned, in the order of the sends' first frames
AutoTags ==
  LET first(f) == ~IsNil(f.DeliveryTag) /\ Len(f.DeliveryTag) = 8
      fs == SelectSeq(HandedToMux \o Offered, first)
  IN  [i \in 1..Len(fs) |-> fs[i].DeliveryTag]

\* C11 - Auto delivery tags: every tag the sender assigns is 8 bytes, the
\* big-endian form of a counter value below the counter; the tags strictly
\* increase in the order the first transfers are handed to the mux (so no
\* two are equal); the counter starts at 0 and counts exactly the sends
\* without a caller's tag that got past the lock.
C11_AutoTags ==
  /\ \A i \in 1..Len(AutoTags) :
       /\ Len(AutoTags[i]) = 8
       /\ \A j \in 1..4 : AutoTags[i][j] = 0
       /\ TagValue(AutoTags[i]) < nextDeliveryTag
       /\ i > 1 => TagValue(AutoTags[i - 1]) < TagValue(AutoTags[i])
  /\ nextDeliveryTag =
       Cardinality({c \in Callers : call[c].pc \in {"offer", "wait", "ret"}
                                     /\ call[c].msg.tag = <<>>})
  /\ Len(Offered) <= 1

\* two sends with assigned tags 0 and 1 handed over in that order, the
\* second while the first awaits its disposition
C11_Witness ==
  /\ Len(AutoTags) = 2
  /\ TagValue(AutoTags[1]) = 0
  /\ TagValue(AutoTags[2]) = 1
  /\ \E c \in Callers : call[c].pc = "wait"

\* C12 - Contiguous deliveries: among the transfers handed to the mux, a
\* transfer with more set is followed by a transfer of the same delivery:
\* one without a delivery-tag of its own.
C12_Contiguous ==
  \A i \in 1..(Len(HandedToMux) - 1) :
    HandedToMux[i].More => IsNil(HandedToMux[i + 1].DeliveryTag)

\* C13 - Link termination reaches every Send: a closing Detach with an
\* error ends the link with a LinkError carrying that error; once the link
\* has terminated its error stays, a Send that starts, or that waits for
\* credit or for a disposition, returns that error and hands over no
\* transfer, and every Send waiting for credit or a disposition eventually
\* returns.
C13_TerminationReachesSends ==
  /\ [][/\ (Handles("Detach") /\ muxPc \in {"select", "txTransfer", "txDisp"}
              /\ Head(rx).Closed /\ Head(rx).Error # "")
            => doneErr' = LinkError(Head(rx).Error, "")
        /\ linkDone => (linkDone' /\ doneErr' = doneErr)
        /\ linkDone => UNCHANGED <<muxTr, sessionTxTransfer>>
        /\ \A c \in Callers :
             (/\ linkDone
              /\ call[c].pc \in {"idle", "offer", "wait"}
              /\ call'[c] # call[c]
              /\ ~call[c].ctxDone
              /\ (call[c].pc = "wait" => Len(doneChan[c].q) = 0 /\ ~doneChan[c].closed))
             => (call'[c].pc = "ret" /\ call'[c].result = doneErr)]_vars
  /\ \A c \in Callers :
       (linkDone /\ call[c].pc \in {"offer", "wait"}) ~> (call[c].pc = "ret")

\* the peer's Detach with an error has ended the link; a Send that waited
\* for its disposition and a Send that got no further than its first frame
\* have both returned the error that carries the peer's
C13_Witness ==
  /\ linkDone
  /\ doneErr = LinkError("detached", "")
  /\ \E c, d \in Callers :
       /\ call[c].pc = "ret" /\ ~IsNil(call[c].done) /\ call[c].result = doneErr
       /\ call[d].pc = "ret" /\ IsNil(call[d].done) /\ call[d].result = doneErr

\* attach takes the peer's answer to its Attach from rx in this step, and
\* the answer is an Attach that names a source or a target
AttachAnswered ==
  /\ attachPc = "waitAttach"
  /\ Len(rx) > 0
  /\ rx' = Tail(rx)
  /\ Head(rx).type = "Attach"
  /\ (Head(rx).Source \/ Head(rx).Target)

\* the mode an optional settle mode stands for, absent being the default
EffectiveMode(m, default) == IF m = None THEN default ELSE m[1]

\* C14 - Settle-mode mismatch: attach fails with an error exactly when a
\* sender- or receiver-settle-mode was requested and the peer's effective
\* mode (absent: mixed / first) differs from it; otherwise attach succeeds
\* and the link has the peer's effective modes.
C14_SettleModeMismatch ==
  [][AttachAnswered =>
       LET peerSnd == EffectiveMode(Head(rx).SenderSettleMode, "mixed")
           peerRcv == EffectiveMode(Head(rx).ReceiverSettleMode, "first")
           differs == \/ senderSettleMode # None /\ senderSettleMode # Some(peerSnd)
                      \/ receiverSettleMode # None /\ receiverSettleMode # Some(peerRcv)
       IN  IF differs
             THEN attachPc' = "failed" /\ attachErr' # NoErr
             ELSE /\ attachPc' = "attached"
                  /\ attachErr' = NoErr
                  /\ senderSettleMode' = Some(peerSnd)
                  /\ receiverSettleMode' = Some(peerRcv)]_vars

\* an attach that asked for sender-settle-mode settled has failed on the
\* peer's answer
C14_Witness ==
  /\ attachPc = "failed"
  /\ attachErr = Errorf("settlement mode requested differs from server")
  /\ senderSettleMode = Some("settled")

\* the Detach frames with closed set that the link handed to the session
DetachesSent == SelectSeq(sessionTx, LAMBDA f : f.type = "Detach" /\ f.Closed)

\* C15 - Refused attach: when attach, after an Attach with neither source
\* nor target, takes a Detach with an error from rx (the session running),
\* it hands the session one Detach with closed set in that same step, before
\* it returns, and returns the peer's error; a refused attach never sends a
\* second Detach.
C15_RefusedAttach ==
  /\ [][(/\ attachPc = "waitDetach"
         /\ Len(rx) > 0
         /\ rx' = Tail(rx)
         /\ Head(rx).type = "Detach"
         /\ Head(rx).Error # ""
         /\ ~sessionDone)
        => /\ sessionTx' = Append(sessionTx, [type |-> "Detach", Closed |-> TRUE, Error |-> ""])
           /\ attachPc' = "failed"
           /\ attachErr' = PeerError(Head(rx).Error)
           /\ muxPc' = "idle"]_vars
  /\ [](attachErr.kind = "Error" => Len(DetachesSent) <= 1)

\* the refused attach has returned the peer's error; the session was given
\* the Attach and then the one Detach
C15_Witness ==
  /\ attachPc = "failed"
  /\ attachErr = PeerError("detached")
  /\ Len(sessionTx) = 2
  /\ sessionTx[1].type = "Attach"
  /\ sessionTx[2] = [type |-> "Detach", Closed |-> TRUE, Error |-> ""]

\* the link has ended: its attach failed and no muxClose is under way, or
\* its mux and muxClose have run to their end
LinkEnded ==
  \/ attachPc = "failed" /\ muxPc \in {"idle", "exited"}
  \/ attachPc = "attached" /\ muxPc = "exited"

\* C16 - Handle release: a link that allocated a handle and has ended, with
\* the session running and no context of its attach or its close done, no
\* longer holds the handle.
C16_HandleReleased ==
  (/\ LinkEnded
   /\ ~sessionDone
   /\ ~attachCtxDone
   /\ closeCtx # "expired")
  => ~handleHeld

\* the link is ending over a Detach that did not close
NonClosingEnd == doneErr = LinkError("", "non-closing detach not supported")

\* C17 - Non-closing detach: a Detach with closed unset that the mux handles
\* ends the mux with a LinkError that has an inner error, and leaves
\* detachReceived unset; muxClose then hands the session a Detach with
\* closed set and waits, and the wait ends only with the peer's closing
\* Detach or with the session.
C17_NonClosingDetach ==
  [][/\ (Handles("Detach") /\ ~Head(rx).Closed)
          => /\ muxPc' = "closeTx"
             /\ doneErr'.kind = "LinkError"
             /\ doneErr'.inner # ""
             /\ ~detachReceived'
     /\ (NonClosingEnd /\ muxPc = "closeTx" /\ muxPc' # "closeTx")
          => \/ /\ sessionTx' = Append(sessionTx, [type |-> "Detach", Closed |-> TRUE, Error |-> ""])
                /\ muxPc' = "closeWait"
                /\ ~linkDone'
             \/ sessionDone
     /\ (NonClosingEnd /\ muxPc = "closeWait" /\ muxPc' # "closeWait")
          => \/ Len(rx) > 0 /\ Head(rx).type = "Detach" /\ Head(rx).Closed
             \/ sessionDone
     /\ NonClosingEnd => doneErr' = doneErr]_vars

\* the link has ended over a non-closing Detach: it sent its Detach and the
\* peer's closing Detach released it
C17_Witness ==
  /\ NonClosingEnd
  /\ linkDone
  /\ ~detachReceived
  /\ ~sessionDone
  /\ Len(DetachesSent) = 1

\* C18 - Explicit close result: the mux that leaves its loop on the close
\* signal sets the link's error to an empty LinkError, and the link's error,
\* once set, stays; a Close that returns on the link's done signal returns
\* nil when the link's error is an empty LinkError, the first Close and any
\* other alike; the link never hands the session a second Detach.
C18_ExplicitClose ==
  /\ [][/\ (muxPc = "select" /\ muxPc' = "closeTx" /\ rxLog' = rxLog /\ ~sessionDone)
             => doneErr' = LinkError("", "")
        /\ doneErr # NoErr => doneErr' = doneErr
        /\ \A k \in Closers :
             (closeCall[k].pc = "wait" /\ closeCall'[k].pc = "ret" /\ ~closeCall[k].ctxDone)
               => /\ linkDone
                  /\ doneErr = LinkError("", "") => closeCall'[k].result = NoErr]_vars
  /\ [](Len(DetachesSent) <= 1)

\* the closing exchange has completed and two Close calls have returned nil
C18_Witness ==
  /\ linkDone
  /\ doneErr = LinkError("", "")
  /\ ~detachReceived
  /\ Len(DetachesSent) = 1
  /\ \E j, k \in Closers :
       /\ j # k
       /\ closeCall[j].pc = "ret" /\ closeCall[j].result = NoErr
       /\ closeCall[k].pc = "ret" /\ closeCall[k].result = NoErr

\* the cleanup runs under the deadline of its own, not the caller's context
BackgroundClose == closeCtx \in {"timed", "expired"}

AttachWaiting == attachPc \in {"waitAttach", "waitDetach"}

\* C19 - Cancelled attach: an attach that waits with its context done, the
\* session running and no frame to take returns the context's error; an
\* attach that returns the context's error starts muxClose under a deadline
\* of its own; that muxClose hands the session a Detach with closed set and
\* then waits, and it ends only with the peer's closing Detach, with the
\* session or with its deadline; done is closed exactly when it has ended,
\* and it does end.
C19_CancelledAttach ==
  /\ [][/\ (AttachWaiting /\ attachPc' # attachPc /\ attachCtxDone /\ ~sessionDone
              /\ rx = <<>>)
             => (attachPc' = "failed" /\ attachErr' = CtxErr)
        /\ (AttachWaiting /\ attachErr' = CtxErr)
             => (muxPc' = "closeTx" /\ closeCtx' = "timed" /\ ~linkDone')
        /\ (BackgroundClose /\ muxPc = "closeTx" /\ muxPc' # muxPc)
             => \/ /\ muxPc' = "closeWait"
                   /\ sessionTx' = Append(sessionTx, PerformDetach(TRUE, ""))
                \/ /\ muxPc' = "exited"
                   /\ sessionDone \/ closeCtx = "expired"
        /\ (BackgroundClose /\ muxPc = "closeWait" /\ muxPc' # muxPc)
             => /\ muxPc' = "exited"
                /\ \/ (rx # <<>> /\ Head(rx).type = "Detach" /\ Head(rx).Closed)
                   \/ sessionDone
                   \/ closeCtx = "expired"]_vars
  /\ [](BackgroundClose => (linkDone <=> muxPc = "exited"))
  /\ ((attachPc = "failed" /\ attachErr = CtxErr) ~> linkDone)

\* a cancelled attach whose cleanup sent its Detach, took the peer's closing
\* Detach before the deadline and closed done
C19_Witness ==
  /\ attachPc = "failed"
  /\ attachErr = CtxErr
  /\ closeCtx = "timed"
  /\ ~sessionDone
  /\ Len(DetachesSent) = 1
  /\ linkDone

\* the bytes b hold a frame header of the given type and channel whose size
\* field is the length of b
FrameHeaderOK(b, fr) ==
  /\ Len(b) >= 8
  /\ SubSeq(b, 1, 4) = WriteUint32(Len(b))
  /\ b[5] = 2
  /\ b[6] = fr.type_
  /\ b[7] * 256 + b[8] = fr.channel

\* writeFrame was called with an empty buffer
WroteToEmpty == ~IsNil(encIn) /\ Val(encIn).buf = <<>>

\* the size field, doff, type and channel of every frame written into an
\* empty buffer
EncHeaders == WroteToEmpty => FrameHeaderOK(Val(encOut), Val(encIn).fr)

\* C20 - Frame size field: the bytes writeFrame writes into an empty buffer
\* start with their own number, big-endian in four bytes, then doff 2, the
\* frame type and the channel; there are at least 8 of them, and exactly 8
\* for a frame without a body.
C20_FrameSizeField ==
  WroteToEmpty
    => /\ FrameHeaderOK(Val(encOut), Val(encIn).fr)
       /\ IsNil(Val(encIn).fr.body) => Len(Val(encOut)) = 8

\* delivery-count + available credit, on uint32
CreditSum == U32Add(deliveryCount, availableCredit)

\* the mux hands the session a transfer in this step
HandsOver == Len(sessionTxTransfer') = Len(sessionTxTransfer) + 1

\* C29 - Credit accounting per delivery: a step in which the mux hands the
\* session a transfer with more unset adds one to delivery-count and takes
\* one from the available credit, on uint32; with more set it changes
\* neither; and in every step that does not handle a Flow of the peer the sum
\* of delivery-count and available credit, on uint32, stays what it was.
C29_CreditPerDelivery ==
  [][/\ HandsOver
          => LET tr == sessionTxTransfer'[Len(sessionTxTransfer')]
             IN  IF tr.More
                   THEN /\ deliveryCount' = deliveryCount
                        /\ availableCredit' = availableCredit
                   ELSE /\ deliveryCount' = U32Add(deliveryCount, U32One)
                        /\ availableCredit' = U32Sub(availableCredit, U32One)
     /\ ~Handles("Flow") => CreditSum' = CreditSum]_vars

\* a delivery of two transfers has been handed over with the delivery-count
\* wrapping from its largest value to zero
C29_Witness ==
  /\ Len(sessionTxTransfer) = 2
  /\ sessionTxTransfer[1].More
  /\ ~sessionTxTransfer[2].More
  /\ deliveryCount = U32Zero
  /\ rxLog = <<>>

\* C30 - Peer-initiated close: the mux that handles a Detach with closed set
\* records it and ends with a LinkError that carries the peer's error, if it
\* gave one, and no inner error; muxClose then never waits for a frame; the
\* step that returns the handle while the session runs is the step that
\* hands the session the one Detach with closed set, and it closes done with
\* that error kept; no second Detach follows.
C30_PeerClose ==
  /\ [][/\ (Handles("Detach") /\ Head(rx).Closed)
             => /\ detachReceived'
                /\ doneErr' = LinkError(Head(rx).Error, "")
                /\ muxPc' = "closeTx"
                /\ handleHeld' = handleHeld
                /\ ~linkDone'
        /\ (detachReceived /\ ~sessionDone /\ handleHeld /\ ~handleHeld')
             => /\ sessionTx' = Append(sessionTx, PerformDetach(TRUE, ""))
                /\ linkDone'
                /\ doneErr' = doneErr
        /\ detachReceived => (detachReceived' /\ doneErr' = doneErr)]_vars
  /\ [](detachReceived => (muxPc # "closeWait" /\ Len(DetachesSent) <= 1))
  /\ []((detachReceived /\ linkDone /\ ~sessionDone)
          => (~handleHeld /\ Len(DetachesSent) = 1))

\* the peer closed the link with an error; the link has answered, returned
\* its handle and closed done with the peer's error
C30_Witness ==
  /\ detachReceived
  /\ linkDone
  /\ ~sessionDone
  /\ ~handleHeld
  /\ doneErr = LinkError("detached", "")
  /\ Len(DetachesSent) = 1

\* the buffer after the last writeMap, from the map's format code on
MapWritten == SubSeq(encOut[1], Len(Val(encIn).buf) + 1, Len(encOut[1]))

\* b starts with the map32 format code, then the number of bytes after the
\* size field, then count, each in four bytes
MapHeaderOK(b, count) ==
  /\ Len(b) >= 9
  /\ b[1] = typeCodeMap32
  /\ SubSeq(b, 2, 5) = WriteUint32(Len(b) - 5)
  /\ SubSeq(b, 6, 9) = WriteUint32(count)

\* C21 (as claimed) - Map header: writeMap of a map of k pairs writes the
\* map32 format code, the number of bytes after the size field, and the
\* count k.
C21_MapHeaderPairs ==
  ~IsNil(encIn) => MapHeaderOK(MapWritten, Cardinality(DOMAIN Val(encIn).m))

\* C21 - Map header: writeMap of a map of k pairs writes the map32 format
\* code, then in four bytes the number of bytes that follow the size field,
\* then in four bytes the count 2k, the number of keys and values.
C21_MapHeader ==
  ~IsNil(encIn) => MapHeaderOK(MapWritten, 2 * Cardinality(DOMAIN Val(encIn).m))

\* a map of three pairs has been written after other bytes, its size taking
\* two bytes
C21_Witness ==
  /\ ~IsNil(encIn)
  /\ Val(encIn).buf # <<>>
  /\ Cardinality(DOMAIN Val(encIn).m) = 3
  /\ Len(MapWritten) > 256 + 9

\* C22 - Deterministic encoding: two writeMap calls with the same map and
\* the same buffer write the same bytes.
C22_Deterministic ==
  Len(encOut) = 2 => encOut[1] = encOut[2]

\* the Declare call has returned
DeclareReturned == call[Caller1].pc = "ret"

\* C24 - Declare result: a Declare that has returned gives no error exactly
\* when its send received a Declared state, and then the id it gives is the
\* one of that state; in every other case it gives no id and an error.
C24_DeclareResult ==
  DeclareReturned
    => LET r == call[Caller1]
           d == Declare(r)
       IN  /\ d.err = NoErr <=> r.state.kind = "declared"
           /\ d.err = NoErr => d.id = Some(r.state.TransactionID)
           /\ d.err # NoErr => d.id = None

\* a Declare has returned the id the coordinator declared
C24_Witness ==
  /\ DeclareReturned
  /\ Declare(call[Caller1]) = [id |-> Some("txn2"), err |-> NoErr]

\* a Declare whose send completed with an Accepted state
C24_WitnessAccepted ==
  /\ DeclareReturned
  /\ call[Caller1].state.kind = "accepted"

\* a Declare whose send completed without a state
C24_WitnessNone ==
  /\ DeclareReturned
  /\ call[Caller1].state = NilState
  /\ call[Caller1].result = NoErr

\* the receiver refills its credit by itself
AutoCredit == recvPc # "new" /\ IsNil(manualCreditor)

\* the caller's call of IssueCredit or DrainCredit begins in this step
CallsForCredit ==
  /\ recvCall.pc = "idle"
  /\ recvCall' # recvCall
  /\ recvCall'.op \in {"IssueCredit", "DrainCredit"}

\* C25 - Manual-credit operations on an auto-credit receiver: IssueCredit
\* and DrainCredit called on a receiver without manual credit return an
\* error at once, send no Flow and do not wake the mux to send one, and
\* leave the link credit as it was.
C25_ManualOnly ==
  [][(AutoCredit /\ CallsForCredit) =>
       /\ recvCall'.pc = "idle"
       /\ recvCall'.err = IF recvCall'.op = "IssueCredit"
                            THEN ErrIssueCredit ELSE ErrDrainCredit
       /\ flowLog' = flowLog
       /\ receiverReady' = receiverReady
       /\ linkCredit' = linkCredit]_vars

\* IssueCredit has failed on an auto-credit receiver that holds credit
C25_Witness ==
  /\ AutoCredit
  /\ recvCall.op = "IssueCredit"
  /\ recvCall.err = ErrIssueCredit
  /\ linkCredit > 0
  /\ flowLog # <<>>

\* one pass of the mux through the top of its loop
MuxPass == recvPc = "top" /\ recvPc' = "select"

SecondWithOne ==
  AutoCredit /\ receiverSettleMode = Some("second") /\ maxCredit = 1

C28_Drain ==
  /\ [][(~IsNil(manualCreditor) /\ recvCall' # recvCall /\ recvCall'.op = "DrainCredit"
           /\ recvCall'.pc = "idle" /\ recvCall'.err = NoErr) => drainSeen']_vars
  /\ [][(MuxPass /\ flowLog' # flowLog /\ flowLog'[Len(flowLog')].Drain) =>
          (linkCredit' = linkCredit /\ flowLog'[Len(flowLog')].LinkCredit = 0)]_vars
  /\ [][(~IsNil(manualCreditor) /\ recvPc = "select" /\ ~drainSeen /\ drainSeen') =>
          linkCredit' = 0]_vars
  /\ []((~IsNil(manualCreditor) /\ recvCall.op = "DrainCredit" /\ recvCall.pc = "waiting"
          /\ ~drainSeen) => Val(manualCreditor).drained = "open")

\* DrainCredit has returned nil on a receiver that held credit when the
\* drain Flow went out
C28_Witness ==
  /\ ~IsNil(manualCreditor)
  /\ recvCall.op = "DrainCredit"
  /\ recvCall.pc = "idle"
  /\ recvCall.err = NoErr
  /\ drainSeen
  /\ linkCredit = 0
  /\ Len(flowLog) = 2
  /\ flowLog[1].LinkCredit > 0
  /\ flowLog[2] = [LinkCredit |-> 0, Drain |-> TRUE]

\* a performative has been marshalled and unmarshalled again
RoundTripDone == ~IsNil(encIn) /\ Len(encOut) = 2

SliceFields ==
  {"OutgoingLocales", "IncomingLocales", "OfferedCapabilities", "DesiredCapabilities",
   "Properties", "Unsettled", "DeliveryTag", "Payload"}

\* p as its omitted fields come back: an empty slice or map as nil, except
\* Begin.Properties, which is omitted only when nil; the initial delivery
\* count of a receiver's Attach as 0
AsRead(p) ==
  [f \in DOMAIN p |->
     IF f \in SliceFields /\ ~(p.kind = "Begin" /\ f = "Properties") /\ p[f] = Some(<<>>)
       THEN None
     ELSE IF p.kind = "Attach" /\ f = "InitialDeliveryCount" /\ p.Role = roleReceiver
       THEN U32Zero
     ELSE p[f]]

C23_WitnessAttach ==
  /\ RoundTripDone
  /\ Val(encIn).kind = "Attach"
  /\ Val(encIn).Role = roleSender
  /\ Val(encIn).InitialDeliveryCount = U32Max
  /\ encOut[2] = Val(encIn)

\* a Detach with closed set
IsClosingDetach(fr) == fr.type = "Detach" /\ fr.Closed

\* muxClose is under way: its Detach is to be sent or its answer awaited
Closing == muxPc \in {"closeTx", "closeWait"}

\* C31 - Handle not reusable before the acknowledgement: the step that
\* returns the handle to the session happens with the session terminated,
\* with the peer's closing Detach already recorded, or is the step in which
\* muxClose takes the peer's closing Detach from rx; once the closing
\* context is done the handle is never returned; a frame other than a
\* closing Detach taken during the wait leaves the handle held, the wait
\* going on and done open.
C31_HandleRelease ==
  [][/\ (handleHeld /\ ~handleHeld')
          => \/ sessionDone
             \/ detachReceived
             \/ /\ muxPc = "closeWait"
                /\ Len(rx) > 0
                /\ IsClosingDetach(Head(rx))
                /\ rx' = Tail(rx)
     /\ (Closing /\ CloseCtxDone /\ handleHeld) => handleHeld'
     /\ (muxPc = "exited" /\ handleHeld) => handleHeld'
     /\ (muxPc = "closeWait" /\ Len(rx) > 0 /\ rx' = Tail(rx)
           /\ ~IsClosingDetach(Head(rx)))
          => (handleHeld' /\ muxPc' = "closeWait" /\ ~linkDone')]_vars

\* Close was called on the attached link, muxClose sent its Detach, and the
\* peer's closing Detach has released the handle
C31_Witness ==
  /\ closeSig
  /\ doneErr = LinkError("", "")
  /\ ~detachReceived
  /\ ~sessionDone
  /\ linkDone
  /\ ~handleHeld
  /\ Len(DetachesSent) = 1

\* the closing context ended during the wait: done is closed with the
\* handle still held
C31_WitnessExpired ==
  /\ muxPc = "exited"
  /\ closeCtx = "expired"
  /\ handleHeld
  /\ linkDone

\* the fields of the last marshalComposite and what it appended to the buffer
CompIn == Val(encIn).fields
CompOut == SubSeq(Val(encOut), Len(Val(encIn).buf) + 1, Len(Val(encOut)))

\* the fields that are not omitted, by index from 0
CompSet == {i \in 0..(Len(CompIn) - 1) : ~IsNil(CompIn[i + 1])}

\* the index from 0 of the last field that is not omitted
CompLast == CHOOSE i \in CompSet : \A j \in CompSet : j <= i

\* the bytes field i (from 0) takes in the list: one for a null
CompWidth(i) == IF IsNil(CompIn[i + 1]) THEN 1 ELSE Len(Val(CompIn[i + 1]))

RECURSIVE CompStart(_)
\* where field i (from 0) starts in the output, counted from 1: after the
\* descriptor, the list32 code, the size and the count
CompStart(i) == IF i = 0 THEN 13 ELSE CompStart(i - 1) + CompWidth(i - 1)

\* C32 - Composite encoding: marshalComposite leaves the buffer it is given
\* in place and appends, when every field is omitted, the descriptor and
\* list0; otherwise, with L the index of the last field not omitted, the
\* descriptor, list32, a size that is the number of bytes after the size
\* field, the count L+1, then for each index up to L a null if the field is
\* omitted and the field's encoding if not, and nothing for the fields
\* after L.
C32_Composite ==
  ~IsNil(encOut) =>
    /\ SubSeq(Val(encOut), 1, Len(Val(encIn).buf)) = Val(encIn).buf
    /\ IF CompSet = {}
         THEN CompOut = <<0, typeCodeSmallUlong, Val(encIn).code, typeCodeList0>>
         ELSE /\ SubSeq(CompOut, 1, 4)
                   = <<0, typeCodeSmallUlong, Val(encIn).code, typeCodeList32>>
              /\ BigEndian(SubSeq(CompOut, 5, 8)) = Len(CompOut) - 8
              /\ BigEndian(SubSeq(CompOut, 9, 12)) = CompLast + 1
              /\ \A i \in 0..CompLast :
                   SubSeq(CompOut, CompStart(i), CompStart(i) + CompWidth(i) - 1)
                     = IF IsNil(CompIn[i + 1]) THEN <<typeCodeNull>> ELSE Val(CompIn[i + 1])
              /\ Len(CompOut) = CompStart(CompLast) + CompWidth(CompLast) - 1

\* three fields, the first and the last omitted: a list32 of two entries, a
\* null and the second field
C32_Witness ==
  /\ ~IsNil(encOut)
  /\ CompIn = <<None, Some(<<typeCodeSmallUint, 5>>), None>>
  /\ CompOut = <<0, typeCodeSmallUlong, Val(encIn).code, typeCodeList32,
                 0, 0, 0, 7, 0, 0, 0, 2, typeCodeNull, typeCodeSmallUint, 5>>

\* every field omitted: the descriptor and list0
C32_WitnessEmpty ==
  /\ ~IsNil(encOut)
  /\ CompIn = <<None, None>>
  /\ Len(CompOut) = 4

\* C33 - No transfer is lost between Send and the session: the mux that
\* holds a transfer it took from a caller goes from the inner loop of the
\* transfer case back to the top of its loop only by handing that transfer
\* to the session's transfer queue, also when the close signal or the
\* session's done signal has fired.
C33_NoTransferLost ==
  [][(muxPc = "txTransfer" /\ muxPc' = "select")
       => sessionTxTransfer' = Append(sessionTxTransfer, Val(muxTr))]_vars

\* the second transfer of a delivery has reached the session and the first,
\* which the mux took before it, has not
C33_SecondWithoutFirst ==
  /\ Len(sessionTxTransfer) = 1
  /\ IsNil(sessionTxTransfer[1].DeliveryID)
  /\ ~sessionTxTransfer[1].More

\* the Flow frames the link handed to the session
FlowsSent == SelectSeq(sessionTx, LAMBDA f : f.type = "Flow")

\* C34 - Flow echo: the step in which the mux handles a peer Flow that
\* carries a link-credit and has echo set hands the session exactly one
\* Flow, with the link's own handle, the link's delivery-count, the credit
\* this step has just stored and echo unset; the step that handles a Flow
\* with echo unset hands the session nothing; and no other step hands the
\* session a Flow.
C34_FlowEcho ==
  [][/\ (Handles("Flow") /\ ~IsNil(Head(rx).LinkCredit) /\ Head(rx).Echo)
          => sessionTx' = Append(sessionTx,
               [type |-> "Flow", Handle |-> Some(handle),
                LinkCredit |-> Some(availableCredit'),
                DeliveryCount |-> Some(deliveryCount'), Echo |-> FALSE])
     /\ (Handles("Flow") /\ ~Head(rx).Echo) => sessionTx' = sessionTx
     /\ FlowsSent' # FlowsSent => (Handles("Flow") /\ Head(rx).Echo)]_vars

\* the peer asked for an echo with link-credit 1 and delivery-count 2^16
\* while the link's delivery-count was 2^16 - 1: the one Flow in reply
\* carries the credit 2 and that delivery-count
C34_Witness ==
  /\ Len(rxLog) = 1
  /\ rxLog[1] = PerformFlow(Some(U32One), Some(U32(1, 0)), TRUE)
  /\ deliveryCount = U32(0, Half - 1)
  /\ availableCredit = U32Of(2)
  /\ sessionTx = <<[type |-> "Flow", Handle |-> Some(handle),
                    LinkCredit |-> Some(U32Of(2)),
                    DeliveryCount |-> Some(U32(0, Half - 1)), Echo |-> FALSE]>>

\* C35 - No credit underflow: the step in which the mux hands the session
\* the last transfer of a delivery, the step that decrements the available
\* credit, is never taken with the credit at 0, whatever Flow frames the mux
\* has handled since it took the transfer; the credit never goes from 0 to
\* 2^32 - 1 by a transfer.
C35_NoUnderflow ==
  [][(muxPc = "txTransfer" /\ sessionTxTransfer' # sessionTxTransfer /\ ~Val(muxTr).More)
       => (availableCredit # U32Zero /\ availableCredit' # U32Max)]_vars

\* C36 - Terminal error publication: done is closed by the one step that
\* ends muxClose, a step taken with done still open, after which the mux
\* takes no step, so done is closed at most once; once done is closed it
\* stays closed and the link's error is not written again; a Send returns
\* the link's error only in a step taken with done closed; hence all the
\* Sends that have returned over the link's termination hold one and the
\* same error, the link's.
C36_TerminalError ==
  /\ [][/\ (~linkDone /\ linkDone') => (Closing /\ muxPc' = "exited")
        /\ (Closing /\ muxPc' = "exited") => (~linkDone /\ linkDone')
        /\ muxPc = "exited" => muxPc' = "exited"
        /\ linkDone => (linkDone' /\ doneErr' = doneErr)
        /\ \A c \in Callers :
             (call[c].pc # "ret" /\ call'[c].pc = "ret")
               => (linkDone /\ call'[c].result = doneErr)]_vars
  /\ [](\A c, d \in Callers :
          (call[c].pc = "ret" /\ call[d].pc = "ret")
            => (call[c].result = call[d].result /\ call[c].result = doneErr))

\* the session ended while muxClose waited for the peer's answer to a
\* Close: the link's error stayed the empty LinkError the mux had set, and
\* a Send that waited for credit and a Send that waited for its disposition
\* both returned it
C36_Witness ==
  /\ linkDone
  /\ closeSig
  /\ sessionDone
  /\ doneErr = LinkError("", "")
  /\ \E c, d \in Callers :
       /\ call[c].pc = "ret" /\ ~IsNil(call[c].done) /\ call[c].result = doneErr
       /\ call[d].pc = "ret" /\ IsNil(call[d].done) /\ call[d].result = doneErr

\* C37 - A send that reports no error has a completion to wait on: a
\* caller whose send has returned without error, and who now waits in Send,
\* holds a done channel, and the last transfer handed to the mux has more
\* unset and carries that channel.
C37_Completion ==
  \A c \in Callers :
    call[c].pc = "wait"
      => /\ ~IsNil(call[c].done)
         /\ Len(HandedToMux) > 0
         /\ ~HandedToMux[Len(HandedToMux)].More
         /\ HandedToMux[Len(HandedToMux)].Done = call[c].done

\* C38 - Flow handling is total: the step in which the mux handles a Flow,
\* with or without a delivery-count and with or without a link-credit,
\* leaves the mux in its loop, done open, and the available credit a
\* 32-bit value.
C38_FlowTotal ==
  [][Handles("Flow")
       => /\ muxPc' \in {"select", "txTransfer", "txDisp"}
          /\ ~linkDone'
          /\ availableCredit' \in (0..(Half - 1)) \X (0..(Half - 1))]_vars

\* the peer's answer to the close is there: its closing Detach has been
\* handled or is the next frame in rx
PeerAnswered ==
  \/ detachReceived
  \/ Len(rx) > 0 /\ IsClosingDetach(Head(rx))

\* C39 - Close terminates: once Close has been called the link hands the
\* session one Detach with closed set unless the session ends first, and
\* never a second; once the peer's closing Detach is there or the session
\* has ended, done is eventually closed, and a Close that waits with done
\* closed returns; a Close that returns with done open returns the
\* context's error, its own context is done, and the step changes nothing
\* of the link, which goes on to close done as before.
C39_CloseTerminates ==
  /\ [](Len(DetachesSent) <= 1)
  /\ (closeSig ~> (Len(DetachesSent) = 1 \/ sessionDone))
  /\ ((closeSig /\ (PeerAnswered \/ sessionDone)) ~> linkDone)
  /\ \A k \in Closers :
       (closeCall[k].pc = "wait" /\ linkDone) ~> (closeCall[k].pc = "ret")
  /\ [][\A k \in Closers :
          (closeCall[k].pc = "wait" /\ closeCall'[k].pc = "ret" /\ ~linkDone)
            => /\ closeCall[k].ctxDone
               /\ closeCall'[k].result = CtxErr
               /\ UNCHANGED <<linkVars, muxVars, rx, sessionTx>>]_vars

\* a Close returned the context's error while muxClose waited, and the
\* peer's closing Detach then ended the wait: done is closed, and a second
\* Close has returned nil
C39_Witness ==
  /\ linkDone
  /\ ~sessionDone
  /\ Len(DetachesSent) = 1
  /\ doneErr = LinkError("", "")
  /\ \E j, k \in Closers :
       /\ closeCall[j].pc = "ret" /\ closeCall[j].result = CtxErr
       /\ closeCall[k].pc = "ret" /\ closeCall[k].result = NoErr

\* C40 - Close reports abnormal termination: a Close that returns on the
\* link's done signal, the link having ended with an error other than the
\* empty LinkError of a local close (the peer's closing Detach with an
\* error, a Detach that does not close, the session's error), returns that
\* error.
C40_AbnormalClose ==
  [][\A k \in Closers :
       (/\ closeCall[k].pc = "wait"
        /\ closeCall'[k].pc = "ret"
        /\ linkDone
        /\ ~closeCall[k].ctxDone
        /\ doneErr # LinkError("", ""))
         => (closeCall'[k].result # NoErr /\ closeCall'[k].result = doneErr)]_vars
====
